---- MODULE Spec2Model ----
(***************************************************************************)
(* ReinforceUI-Studio: the training orchestrator (training_loop), the      *)
(* thread that runs it (TrainingThread) and the collaborators it drives.   *)
(*                                                                         *)
(* One action of the model is one operation of the program:                *)
(*   ThreadStop       TrainingThread.stop()                                *)
(*   ThreadRun        TrainingThread.run() up to the head of the for loop  *)
(*   LoopInterrupt    the `if not is_running` branch at the loop head      *)
(*   LoopStep         one whole iteration of the for loop                  *)
(*   SetupRaises, LoopStepRaises   a run that an exception ends            *)
(*   GroupBy          the grouping of an evaluation log, applied directly  *)
(*   LoopExhaust      range(steps_training) is exhausted                   *)
(*   SaveLogs, PolicyLoopTest, EmitCompleted   the three final statements  *)
(*   AgentTrain, AgentSelect, AgentSave, AgentLoad, AgentConstruct         *)
(*                    the methods of DQN, DDPG and SAC, called directly    *)
(*   AddAlgorithmSelection, RemoveAlgorithmSelection, SetHyperChoice,      *)
(*   OpenCustomHyperparams, SaveCustomParams, ConfirmSelection             *)
(*                    the handlers of SelectMultipleAlgorithmWindow        *)
(*                                                                         *)
(* Collaborators whose code is outside the modelled sources (environment,  *)
(* memory buffer, logger, evaluation runner, training window) are stubs    *)
(* that record the calls they receive.                                     *)
(***************************************************************************)
EXTENDS Integers, Sequences, FiniteSets, TLC

\* Largest step budget ("Training Steps") of a run with a free environment.
MaxSteps == 3
\* Largest value of the integer hyperparameters (G, batch size, exploration
\* steps, max_steps_per_batch, evaluation and log interval).
MaxParam == 2
\* Largest number of train_policy calls made on agents operated directly.
MaxTrain == 2
\* Largest number of records of an evaluation log that is grouped directly.
MaxLog == 3
\* Largest number of rows created in the algorithm selection window.
MaxRows == 4

VARIABLES
    config_data,        \* the flat configuration handed to the thread
    thread_is_running,  \* TrainingThread._is_running
    stop_request,       \* history: when stop() was first called
    pc,                 \* position of the training thread
    is_running,         \* training_loop's parameter is_running
    total_step_counter, \* the value the for loop yields next (= iterations begun)
    episode_timesteps,
    episode_num,
    episode_reward,
    exploration_rate,   \* rational <<numerator, denominator>>
    eps_decays,         \* history: number of decay applications
    state,              \* the loop's current observation
    env,                \* the training environment stub
    memory,             \* the sequence of add_experience calls
    train_calls,        \* the sequence of rl_agent.train_policy calls
    log_train,          \* the records written by logger.log_training
    checkpoints,        \* the completed-step counts of logger.save_checkpoint calls
    eval_calls,         \* the calls of evaluate_policy_loop
    window,             \* the integer signals emitted to the training window
    step_ops,           \* the operations of the most recent iteration, in order
    training_completed,
    final_ops,          \* the final statements executed so far, in order
    completed_signal,   \* the values emitted on training_completed_signal
    rl_agent,           \* the agent instance
    files,              \* the model files of one name and path, by role
    agent_hist,         \* history: the most recent operation on the agent
    env_evaluation,     \* the evaluation environment stub
    setup_ops,          \* the statements of training_loop's set-up executed, in order
    error,              \* the exception that ended the training thread
    now,                \* the reading time.time() returns
    episode_start_time,
    total_episode_time,
    estimates,          \* the remaining-time estimates, one per episode end
    df_log_evaluation,  \* the evaluation log the runner returned last
    df_grouped,         \* the table handed to update_plot_eval last
    selection_rows,     \* SelectMultipleAlgorithmWindow.selection_rows
    custom_hyperparams, \* SelectMultipleAlgorithmWindow.custom_hyperparams
    custom_window,      \* the SelectHyperWindow opened last, if still open
    user_selections,    \* user_selections["Algorithms"]
    rows_hist           \* history: rows created, the last save per shown row

vars == <<config_data, thread_is_running, stop_request, pc, is_running,
          total_step_counter, episode_timesteps, episode_num, episode_reward,
          exploration_rate, eps_decays, state, env, memory, train_calls,
          log_train, checkpoints, eval_calls, window, step_ops,
          training_completed, final_ops, completed_signal,
          rl_agent, files, agent_hist,
          env_evaluation, setup_ops, error, now, episode_start_time,
          total_episode_time, estimates, df_log_evaluation, df_grouped,
          selection_rows, custom_hyperparams, custom_window, user_selections,
          rows_hist>>

\* The algorithm selection window.
gui_vars == <<selection_rows, custom_hyperparams, custom_window,
              user_selections, rows_hist>>

(***************************************************************************)
(* Rational numbers <<n, d>> with d > 0 stand for the floats of the        *)
(* exploration schedule; arithmetic is exact.                              *)
(***************************************************************************)
RatMul(x, y) == <<x[1] * y[1], x[2] * y[2]>>
RatLess(x, y) == x[1] * y[2] < y[1] * x[2]
RatEq(x, y) == x[1] * y[2] = y[1] * x[2]
\* Python's max(a, b): b when b > a, else a.
PyMax(a, b) == IF RatLess(a, b) THEN b ELSE a

\* The common divisors of the rational's numerator and denominator.
Divisors(x) == { d \in 1..x[2] : x[1] % d = 0 /\ x[2] % d = 0 }

\* The rational in lowest terms (the rational and its greatest common
\* divisor are bound as values, so that each is computed once).
Norm(x) ==
    CHOOSE r \in UNION { { <<v[1] \div g, v[2] \div g>> :
                             g \in { d \in Divisors(v) :
                                        (d + 1)..v[2] \cap Divisors(v) = {} } } :
                         v \in {x} } : TRUE

RatAdd(x, y) == Norm(<<x[1] * y[2] + y[1] * x[2], x[2] * y[2]>>)
RatSub(x, y) == Norm(<<x[1] * y[2] - y[1] * x[2], x[2] * y[2]>>)

RECURSIVE RatPow(_, _)
RatPow(x, k) == IF k = 0 THEN <<1, 1>> ELSE RatMul(x, RatPow(x, k - 1))

RECURSIVE Pow2(_)
Pow2(k) == IF k = 0 THEN 1 ELSE 2 * Pow2(k - 1)

Repeat(x, n) == [i \in 1..n |-> x]

\* The position of the first occurrence of x in seq (0: none).
Pos(seq, x) ==
    IF \E i \in DOMAIN seq : seq[i] = x
    THEN CHOOSE i \in DOMAIN seq : seq[i] = x /\ \A j \in 1..(i - 1) : seq[j] # x
    ELSE 0

(***************************************************************************)
(* Configurations.                                                         *)
(***************************************************************************)
\* The three families of the loop: PPO, DQN, and any other name (DDPG here).
Algorithms == {"PPO", "DQN", "DDPG"}

\* <<epsilon_decay, epsilon_min>> pairs.
EpsParams == { <<(<<1, 1>>), (<<1, 1>>)>>,
               <<(<<1, 2>>), (<<1, 4>>)>>,
               <<(<<0, 1>>), (<<0, 1>>)>>,
               <<(<<2, 1>>), (<<3, 1>>)>> }

\* No decay and a floor of 1: the rate stays 1 and every draw explores.
DefaultEps == <<(<<1, 1>>), (<<1, 1>>)>>

AllConfigs ==
    [ Algorithm : Algorithms,
      steps_training : 1..MaxSteps,
      evaluation_interval : 1..MaxParam,
      log_interval : 1..MaxParam,
      number_eval_episodes : 1..MaxParam,
      G : 1..MaxParam,
      batch_size : 1..MaxParam,
      steps_exploration : 0..MaxParam,
      max_steps_per_batch : 1..MaxParam,
      eps : EpsParams,
      Seed : {0},
      target_update_freq : {MaxParam},
      tau : {<<1, 1>>},
      policy_update_freq : {1},
      selected_platform : {"Gymnasium"},
      missing : {{}},
      clock : {"steady"},
      script : {"free"} ]

\* A hyperparameter the family never reads is held at one value, and the
\* exploration schedule varies with the update multiplicity and the batch
\* size at 1 (the schedule reads neither).
Relevant(c) ==
    /\ c.Algorithm = "PPO" =>
          c.G = 1 /\ c.batch_size = 1 /\ c.steps_exploration = 0
    /\ c.Algorithm # "PPO" => c.max_steps_per_batch = 1
    /\ c.Algorithm # "DQN" => c.eps = DefaultEps
    /\ c.eps # DefaultEps => c.G = 1 /\ c.batch_size = 1

\* The cadence hyperparameters are at their smallest values.
PlainCadence(c) ==
    /\ c.G = 1 /\ c.batch_size = 1 /\ c.steps_exploration = 0
    /\ c.max_steps_per_batch = 1 /\ c.eps = DefaultEps

\* Either the cadence hyperparameters vary and the two intervals are
\* MaxParam, or the intervals vary and the cadence is plain; the number of
\* evaluation episodes varies with a plain cadence and log interval 1.
FreeConfigs ==
    { c \in AllConfigs :
        /\ Relevant(c)
        /\ \/ c.evaluation_interval = MaxParam /\ c.log_interval = MaxParam
           \/ PlainCadence(c)
        /\ c.number_eval_episodes # 1 =>
              PlainCadence(c) /\ c.log_interval = 1 }

\* The end-to-end scenario of the specification: 10 steps, 3 exploration
\* steps, evaluation every 5 steps, batch size 2, done at steps 4 and 9.
E2EDoneSteps == {4, 9}

E2EConfigs ==
    { [ Algorithm |-> a, steps_training |-> 10, evaluation_interval |-> 5,
        log_interval |-> 5, number_eval_episodes |-> 1, G |-> 1, batch_size |-> 2,
        steps_exploration |-> 3, max_steps_per_batch |-> 5,
        eps |-> DefaultEps, Seed |-> 0, target_update_freq |-> 2,
        tau |-> <<1, 1>>, policy_update_freq |-> 1,
        selected_platform |-> "Gymnasium", missing |-> {},
        clock |-> "steady", script |-> "e2e" ] : a \in Algorithms }

Configs == FreeConfigs \cup E2EConfigs

\* The hyperparameters of agents operated directly: tau at its two ends and
\* between, the two frequencies up to MaxParam; each varies for the variants
\* that are offered it, policy_update_freq with tau between its ends.
Taus == { <<0, 1>>, <<1, 2>>, <<1, 1>> }

AgentBase ==
    [ Algorithm |-> "DQN", steps_training |-> 1, evaluation_interval |-> 1,
      log_interval |-> 1, number_eval_episodes |-> 1, G |-> 1,
      batch_size |-> 1, steps_exploration |-> 0, max_steps_per_batch |-> 1,
      eps |-> DefaultEps, Seed |-> 0, target_update_freq |-> 1,
      tau |-> <<1, 2>>, policy_update_freq |-> 1,
      selected_platform |-> "Gymnasium", missing |-> {}, clock |-> "steady",
      script |-> "free" ]

AgentConfigs ==
    { [ AgentBase EXCEPT !.Algorithm = k, !.target_update_freq = f,
                         !.tau = t, !.policy_update_freq = p ] :
        k \in {"DQN"}, f \in 1..MaxParam, t \in {<<1, 2>>}, p \in {1} }
    \cup
    { [ AgentBase EXCEPT !.Algorithm = k, !.target_update_freq = f,
                         !.tau = t, !.policy_update_freq = p ] :
        k \in {"DDPG"}, f \in {1}, t \in Taus, p \in {1} }
    \cup
    { c \in { [ AgentBase EXCEPT !.Algorithm = k, !.target_update_freq = f,
                                !.tau = t, !.policy_update_freq = p ] :
                 k \in {"SAC"}, f \in {1}, t \in Taus, p \in 1..MaxParam } :
        c.policy_update_freq # 1 => c.tau = <<1, 2>> }

(***************************************************************************)
(* The environment stub.  Observations are numbered in the order the       *)
(* environment hands them out; the k-th call of step returns the reward    *)
(* 2^(k-1), so a sum of rewards tells which steps it was taken over.       *)
(***************************************************************************)
\* done and truncated both true drives the loop exactly as done alone does.
Outcomes == { [done |-> FALSE, truncated |-> FALSE],
              [done |-> TRUE, truncated |-> FALSE],
              [done |-> FALSE, truncated |-> TRUE] }

EnvOutcomes(e) ==
    IF e.script = "free"
    THEN Outcomes
    ELSE { [done |-> (Len(e.returns) + 1) \in E2EDoneSteps,
            truncated |-> FALSE] }

\* An environment of class cls constructed with the seed, the instance-th
\* object the run constructs.
NewEnv(script, cls, seed, instance) ==
    [script |-> script, fresh |-> 1, returns |-> <<>>, resets |-> <<>>,
     cls |-> cls, seed |-> seed, instance |-> instance]

\* No environment has been created.
NoEnv ==
    [script |-> "none", fresh |-> 0, returns |-> <<>>, resets |-> <<>>,
     cls |-> "none", seed |-> 0, instance |-> 0]

\* No exception has been raised.
NoError == [type |-> "none", stage |-> "none"]

\* env.reset(): the new environment and the observation returned.
EnvReset(e) ==
    [env |-> [e EXCEPT !.fresh = @ + 1, !.resets = Append(@, e.fresh)],
     obs |-> e.fresh]

\* env.step(action) with outcome out.
EnvStep(e, action, out) ==
    LET ret == [action |-> action, next_state |-> e.fresh,
                reward |-> Pow2(Len(e.returns)),
                done |-> out.done, truncated |-> out.truncated]
    IN [env |-> [e EXCEPT !.fresh = @ + 1, !.returns = Append(@, ret)],
        ret |-> ret]

(***************************************************************************)
(* The pieces of one iteration of training_loop.                           *)
(***************************************************************************)
\* The branch of the random draw `random.random() < exploration_rate`:
\* the draw lies in [0, 1).
DrawOutcomes(rate) ==
    { b \in BOOLEAN : /\ b => RatLess(<<0, 1>>, rate)
                      /\ ~b => RatLess(rate, <<1, 1>>) }

\* Mutant of DecayRate: the clamp to epsilon_min is missing.
DecayRateUnclamped(rate, epsilon_decay, epsilon_min) ==
    RatMul(rate, epsilon_decay)

\* exploration_rate *= epsilon_decay; exploration_rate = max(epsilon_min, ..)
DecayRate(rate, epsilon_decay, epsilon_min) ==
    PyMax(epsilon_min, RatMul(rate, epsilon_decay))

\* Mutant of Decays: the rate is decayed during the exploration steps too.
DecaysFromStart(alg, t, steps_exploration) == alg = "DQN"

\* Does this iteration decay the exploration rate?
Decays(alg, t, steps_exploration) ==
    alg = "DQN" /\ ~(t < steps_exploration)

\* "Select action": which call produces the action of step t.  explore is
\* the branch of the random draw of the DQN family.
SelectAction(alg, t, steps_exploration, explore, st) ==
    LET sample == [src |-> "sample_action", in_state |-> st]
        policy == [src |-> "select_action_from_policy", in_state |-> st]
    IN IF alg = "PPO" THEN policy
       ELSE IF alg = "DQN"
            THEN IF t < steps_exploration THEN sample
                 ELSE IF explore THEN sample ELSE policy
            ELSE IF t < steps_exploration THEN sample ELSE policy

\* The auxiliary value select_action_from_policy returns beside the action
\* (PPO only): the log-probability computed in state st.
LogProb(alg, st) == IF alg = "PPO" THEN <<st>> ELSE <<>>

\* Mutant of Transition: `state = next_state` runs before add_experience,
\* so the stored state is the one the step led to.
TransitionAfterStateUpdate(st, action, ret, log_prob) ==
    [state |-> ret.next_state, action |-> action, reward |-> ret.reward,
     next_state |-> ret.next_state, done |-> ret.done, log_prob |-> log_prob]

\* "Store experience in memory": the arguments of add_experience.
Transition(st, action, ret, log_prob) ==
    [state |-> st, action |-> action, reward |-> ret.reward,
     next_state |-> ret.next_state, done |-> ret.done, log_prob |-> log_prob]

\* Mutant of NumUpdates: the generic family starts one step late
\* (`>` for `>=`).
NumUpdatesLate(alg, t, G, batch_size, steps_exploration, max_steps_per_batch) ==
    IF alg = "PPO" /\ (t + 1) % max_steps_per_batch = 0 THEN 1
    ELSE IF alg = "DQN" /\ t > batch_size THEN G
    ELSE IF alg # "PPO" /\ alg # "DQN" /\ t > steps_exploration THEN G
    ELSE 0

\* Mutant of NumUpdates: the PPO batch is counted on the 0-based index.
NumUpdatesZeroBased(alg, t, G, batch_size, steps_exploration, max_steps_per_batch) ==
    IF alg = "PPO" /\ t % max_steps_per_batch = 0 THEN 1
    ELSE IF alg = "DQN" /\ t > batch_size THEN G
    ELSE IF alg # "PPO" /\ alg # "DQN" /\ t >= steps_exploration THEN G
    ELSE 0

\* "Train the policy": the number of train_policy calls of step t.
NumUpdates(alg, t, G, batch_size, steps_exploration, max_steps_per_batch) ==
    IF alg = "PPO" /\ (t + 1) % max_steps_per_batch = 0 THEN 1
    ELSE IF alg = "DQN" /\ t > batch_size THEN G
    ELSE IF alg # "PPO" /\ alg # "DQN" /\ t >= steps_exploration THEN G
    ELSE 0

\* One train_policy call as the agent sees it: the step it is made in, the
\* number of transitions the memory holds, and whether batch_size is passed.
TrainCall(alg, t, mem) ==
    [step |-> t, mem_len |-> Len(mem), with_batch_size |-> alg # "PPO"]

\* "Handle episode completion": the condition.
EpisodeEnd(ret) == ret.done \/ ret.truncated

\* Mutant of ResetReward: the episode reward is not reset.
KeepReward(rew) == rew

\* Mutant of ResetTimesteps: the per-episode step counter is not reset.
KeepTimesteps(ts) == ts

\* The per-episode counters after the reset at an episode boundary.
ResetTimesteps(ts) == 0
ResetReward(rew) == 0

\* Mutant of CheckpointDue: the test reads the 0-based step index.
CheckpointDueZeroBased(t, log_interval) == t % log_interval = 0

\* "Save checkpoint based on log interval".
CheckpointDue(t, log_interval) == (t + 1) % log_interval = 0

\* Mutant of EvaluationDue: the trigger tests the 0-based step index.
EvaluationDueZeroBased(t, evaluation_interval) == t % evaluation_interval = 0

\* "Save checkpoint based on log interval" and "Evaluate the policy".
EvaluationDue(t, evaluation_interval) == (t + 1) % evaluation_interval = 0

\* Mutant of EvaluationEnvironment: the training environment is handed over.
EvaluationEnvironmentTraining == "env"

\* Which of the two environments the loop hands to evaluate_policy_loop.
EvaluationEnvironment == "env_evaluation"

\* The call of evaluate_policy_loop made in step t: the evaluation
\* environment, the configured episode count and total_step_counter.
EvalCall(t, number_eval_episodes, updates) ==
    [env |-> EvaluationEnvironment, episodes |-> number_eval_episodes,
     timestep |-> t, after_step |-> t + 1, updates |-> updates]

\* One evaluation episode of the runner on the environment it is handed: a
\* reset and a step that ends the episode.
EvaluationEpisode(e) ==
    CHOOSE r \in { EnvStep(x.env,
                           [src |-> "select_action_from_policy",
                            in_state |-> x.obs],
                           [done |-> TRUE, truncated |-> FALSE]).env :
                     x \in { EnvReset(e) } } : TRUE

\* evaluate_policy_loop(env, ..., number_eval_episodes, ...): the environment
\* after the episodes.
RECURSIVE EvaluatePolicyLoop(_, _)
EvaluatePolicyLoop(e, episodes) ==
    IF episodes = 0 THEN e
    ELSE CHOOSE r \in { EvaluatePolicyLoop(x, episodes - 1) :
                          x \in { EvaluationEpisode(e) } } : TRUE

\* A missing value (NaN) of a column; a value v that is present is <<v>>.
NaN == <<>>

\* The records evaluate_policy_loop adds to the evaluation log for the
\* episodes it runs on environment e at timestep t, one per episode.
EvaluationRecords(e, t, episodes) ==
    [ k \in 1..episodes |->
        [ Total_Timesteps |-> t, Episode |-> <<k>>,
          Reward |-> <<Pow2(Len(e.returns) + k - 1)>> ] ]

\* The elements of a set of integers in ascending order.
RECURSIVE SortedSeq(_)
SortedSeq(S) ==
    IF S = {} THEN <<>>
    ELSE CHOOSE r \in { <<m>> \o SortedSeq(S \ {m}) :
                          m \in { x \in S : \A y \in S : x <= y } } : TRUE

\* GroupBy.last() for one group and one column: the last value of the column
\* that is not missing, or NaN when all are.
GroupLast(df, key, col) ==
    LET valid == { i \in DOMAIN df :
                      df[i].Total_Timesteps = key /\ df[i][col] # NaN }
    IN IF valid = {} THEN NaN
       ELSE df[CHOOSE i \in valid : \A j \in valid : j <= i][col]

\* df.groupby("Total Timesteps", as_index=False).last(): one row per key, in
\* ascending order of the key.
GroupByLast(df) ==
    LET keys == SortedSeq({ df[i].Total_Timesteps : i \in DOMAIN df })
    IN [ j \in DOMAIN keys |->
           [ Total_Timesteps |-> keys[j],
             Episode |-> GroupLast(df, keys[j], "Episode"),
             Reward |-> GroupLast(df, keys[j], "Reward") ] ]

\* Mutant of CountStep: the step is not counted into the episode.
CountStepSkipped(timesteps) == timesteps

\* episode_timesteps += 1, the second statement of every iteration.
CountStep(timesteps) == timesteps + 1

\* Mutant of LoggedTotalSteps: the 0-based loop index is logged.
LoggedTotalStepsZeroBased(t) == t

\* The total-steps argument of logger.log_training.
LoggedTotalSteps(t) == t + 1

\* A divisor of the episode bookkeeping is zero: episode_num + 1 of the
\* average, episode_timesteps of the remaining episodes.
ZeroDivisor(num, timesteps) == num + 1 = 0 \/ timesteps = 0

\* The statement of an iteration at which a zero divisor raises
\* ZeroDivisionError: the cadence test of PPO or the synchronisation test of
\* DQN.train_policy, the divisions of the episode bookkeeping, the checkpoint
\* test, the evaluation test.
RaisePoint(c, t, ended, num, timesteps) ==
    IF \/ c.Algorithm = "PPO" /\ c.max_steps_per_batch = 0
       \/ /\ c.Algorithm = "DQN"
          /\ c.target_update_freq = 0
          /\ NumUpdates(c.Algorithm, t, c.G, c.batch_size,
                        c.steps_exploration, c.max_steps_per_batch) > 0
    THEN "train_policy"
    ELSE IF ended /\ ZeroDivisor(num, timesteps) THEN "time_remaining"
    ELSE IF ended /\ c.log_interval = 0 THEN "save_checkpoint"
    ELSE IF c.evaluation_interval = 0 THEN "evaluate"
    ELSE "none"

\* Mutant of StepOps: the evaluation precedes the training updates.
StepOpsEvaluateFirst(n, logged, checkpoint, booked, evaluate, notified) ==
    <<"poll", "select_action", "env_step", "add_experience">>
        \o (IF evaluate THEN <<"evaluate">> ELSE <<>>)
        \o Repeat("train_policy", n)
        \o (IF logged THEN <<"log_training">> ELSE <<>>)
        \o (IF checkpoint THEN <<"save_checkpoint">> ELSE <<>>)
        \o (IF booked THEN <<"env_reset">> ELSE <<>>)
        \o (IF notified THEN <<"notify">> ELSE <<>>)

\* The operations of one iteration in the order of the code: n calls of
\* train_policy, the episode bookkeeping, the evaluation, the notifications.
StepOps(n, logged, checkpoint, booked, evaluate, notified) ==
    <<"poll", "select_action", "env_step", "add_experience">>
        \o Repeat("train_policy", n)
        \o (IF logged THEN <<"log_training">> ELSE <<>>)
        \o (IF checkpoint THEN <<"save_checkpoint">> ELSE <<>>)
        \o (IF booked THEN <<"env_reset">> ELSE <<>>)
        \o (IF evaluate THEN <<"evaluate">> ELSE <<>>)
        \o (IF notified THEN <<"notify">> ELSE <<>>)

\* The steps of the clock between two readings of time.time() one iteration
\* apart: a steady clock, or one that may stand still or be set back.
StepDurations(clock) == IF clock = "steady" THEN {1} ELSE {-1, 0, 2}

\* Mutant of RemainingEpisodes: the step just taken still counts as to do.
RemainingEpisodesCountingStep(steps_training, t, timesteps) == (steps_training - t) \div timesteps

\* remaining_episodes = (steps_training - total_step_counter - 1)
\*                          // episode_timesteps
RemainingEpisodes(steps_training, t, timesteps) == (steps_training - t - 1) \div timesteps

\* time.strftime("%H:%M:%S", time.gmtime(x)) for x >= 0: the whole seconds,
\* as hours of the day, minutes and seconds.
FormatHMS(x) ==
    LET seconds == x[1] \div x[2]
    IN <<(seconds \div 3600) % 24, (seconds \div 60) % 60, seconds % 60>>

\* The remaining-time estimate at an episode end: total is total_episode_time
\* including the episode just ended.
TimeRemaining(total, num, steps_training, t, timesteps) ==
    LET average_episode_time == Norm(<<total, num + 1>>)
        remaining_episodes == RemainingEpisodes(steps_training, t, timesteps)
        estimated_time_remaining ==
            Norm(RatMul(average_episode_time, <<remaining_episodes, 1>>))
    IN [ step |-> t + 1, episode_timesteps |-> timesteps,
         episode_divisor |-> num + 1,
         average_episode_time |-> average_episode_time,
         remaining_episodes |-> remaining_episodes,
         estimated_time_remaining |-> estimated_time_remaining,
         emitted |-> FormatHMS(PyMax(<<0, 1>>, estimated_time_remaining)) ]

\* Mutant of Progress: the percentage of the steps begun before this one.
ProgressZeroBased(t, steps_training) == (t * 100) \div steps_training

\* int(progress), progress = (t + 1) / steps_training * 100.
Progress(t, steps_training) == ((t + 1) * 100) \div steps_training

\* Mutant of BreakTarget: `return` for `break`.
BreakAsReturn == "done"

\* Where the cancellation branch leaves the loop to: `break` falls through
\* to the final statements.
BreakTarget == "save_logs"

\* The value training_loop receives for is_running: run() passes the value
\* of the flag at the time of the call, not the flag.
IsRunningArgument(flag) == flag

(***************************************************************************)
(* The agents.  A network is its parameter list, a list of rationals; an   *)
(* agent is a record of the attributes its class keeps, with "absent" for  *)
(* an attribute the class does not have.                                   *)
(***************************************************************************)
Kinds == {"DQN", "DDPG", "SAC"}

\* The parameter sets an instance holds.
NetNames(kind) ==
    CASE kind = "DQN" -> {"net", "target_net"}
      [] kind = "DDPG" -> {"actor_net", "critic_net",
                           "target_actor_net", "target_critic_net"}
      [] kind = "SAC" -> {"actor_net", "critic_net", "target_critic_net",
                          "log_alpha"}
      [] OTHER -> {}

\* The target copies, and the network each was deep-copied from.
TargetNets(kind) == NetNames(kind) \cap {"target_net", "target_actor_net", "target_critic_net"}

SourceOf(target) ==
    CASE target = "target_net" -> "net"
      [] target = "target_actor_net" -> "actor_net"
      [] target = "target_critic_net" -> "critic_net"

\* Mutant of Optimised: an optimiser also holds the target copies.
OptimisedWithTargets(kind) == NetNames(kind)

\* The parameter sets handed to an optimiser in __init__.
Optimised(kind) ==
    CASE kind = "DQN" -> {"net"}
      [] kind = "DDPG" -> {"actor_net", "critic_net"}
      [] kind = "SAC" -> {"log_alpha", "actor_net", "critic_net"}
      [] OTHER -> {}

\* Two random initialisations of a network, told apart by the seed; the
\* networks of one instance start with different values.
Seeds == {0, 1}

InitialParams(name, seed) ==
    LET base == 10 * seed + (IF name = "critic_net" THEN 4 ELSE 0)
    IN << <<base, 1>>, <<base + 1, 1>> >>

\* log_alpha = log(init_temperature) = log(1.0).
InitialLogAlpha == << <<0, 1>> >>

\* __init__: the online networks, deep copies as targets, the counters and
\* the hyperparameters the class reads.
NewAgent(kind, hyperparameters, seed) ==
    [ kind |-> kind,
      learn_counter |-> IF kind \in {"DQN", "SAC"} THEN 0 ELSE "absent",
      target_update_freq |-> IF kind = "DQN"
                             THEN hyperparameters.target_update_freq
                             ELSE "absent",
      policy_update_freq |-> IF kind = "SAC" THEN 1 ELSE "absent",
      tau |-> IF kind \in {"DDPG", "SAC"} THEN hyperparameters.tau
              ELSE "absent",
      nets |-> [ n \in NetNames(kind) |->
                   IF n = "log_alpha" THEN InitialLogAlpha
                   ELSE IF n \in TargetNets(kind)
                        THEN InitialParams(SourceOf(n), seed)
                        ELSE InitialParams(n, seed) ] ]

\* The loop's agent of an algorithm whose class is outside the sources.
OpaqueAgent(kind) ==
    [ kind |-> kind, learn_counter |-> "absent",
      target_update_freq |-> "absent", policy_update_freq |-> "absent",
      tau |-> "absent", nets |-> <<>> ]

\* Before training_loop has constructed the agent.
NoAgent == OpaqueAgent("none")

\* The gradient an optimiser step applies to every parameter it holds.
Grads == {1}

\* optimiser.step() of every optimiser of the instance.
GradientStep(kind, nets, g) ==
    [ n \in DOMAIN nets |->
        IF n \in Optimised(kind)
        THEN [ i \in DOMAIN nets[n] |-> RatAdd(nets[n][i], <<g, 1>>) ]
        ELSE nets[n] ]

\* Mutant of Soft: the weights of source and target are exchanged.
SoftSwapped(tau, param, target_param) == RatAdd(RatMul(RatSub(<<1, 1>>, tau), param), RatMul(tau, target_param))

\* tau * param.data + (1 - tau) * target_param.data
Soft(tau, param, target_param) == RatAdd(RatMul(tau, param), RatMul(RatSub(<<1, 1>>, tau), target_param))

\* The soft synchronisation of each of the targets with its source.
SoftSync(nets, tau, targets) ==
    [ n \in DOMAIN nets |->
        IF n \in targets
        THEN [ i \in DOMAIN nets[n] |->
                 Soft(tau, nets[SourceOf(n)][i], nets[n][i]) ]
        ELSE nets[n] ]

\* target_net.load_state_dict(net.state_dict())
HardSync(nets, target) == [ nets EXCEPT ![target] = nets[SourceOf(target)] ]

\* Mutant of SyncDue: the counter is tested before its increment.
SyncDueBeforeIncrement(learn_counter, freq) == (learn_counter - 1) % freq = 0

\* learn_counter % target_update_freq == 0 (DQN), and
\* learn_counter % policy_update_freq == 0 (SAC).
SyncDue(learn_counter, freq) == learn_counter % freq = 0

\* Mutant of Increment: the counter is not advanced.
NoIncrement(learn_counter) == learn_counter

\* learn_counter += 1
Increment(learn_counter) == learn_counter + 1

\* What follows the optimiser steps in train_policy: the instance after the
\* call, and its networks after the optimiser steps.
Synchronise(a, stepped) ==
    CASE a.kind = "DQN" ->
           LET lc == Increment(a.learn_counter)
           IN [ agent |-> [ a EXCEPT !.learn_counter = lc,
                              !.nets = IF SyncDue(lc, a.target_update_freq)
                                       THEN HardSync(stepped, "target_net")
                                       ELSE stepped ],
                pre_sync |-> stepped ]
      [] a.kind = "DDPG" ->
           [ agent |-> [ a EXCEPT !.nets =
                           SoftSync(stepped, a.tau,
                                    {"target_critic_net", "target_actor_net"}) ],
             pre_sync |-> stepped ]
      [] a.kind = "SAC" ->
           LET lc == Increment(a.learn_counter)
           IN [ agent |-> [ a EXCEPT !.learn_counter = lc,
                              !.nets = IF SyncDue(lc, a.policy_update_freq)
                                       THEN SoftSync(stepped, a.tau,
                                                     {"target_critic_net"})
                                       ELSE stepped ],
                pre_sync |-> stepped ]
      [] OTHER -> [ agent |-> a, pre_sync |-> a.nets ]

\* train_policy with gradient g (the instance and its networks after the
\* optimiser steps are bound as values, so that each is computed once).
TrainPolicy(a, g) ==
    CHOOSE r \in { Synchronise(x, stepped) :
                     x \in {a},
                     stepped \in { GradientStep(a.kind, a.nets, g) } } : TRUE

\* DQN.train_policy with target_update_freq = 0: the instance when the test
\* of line 111 raises, after the optimiser step and the increment.
TrainPolicyRaises(a, g) ==
    [ a EXCEPT !.learn_counter = Increment(@),
               !.nets = GradientStep(a.kind, a.nets, g) ]

\* n calls of train_policy, each with gradient g; the instance after a call
\* is bound as a value, so that it is computed once.
RECURSIVE TrainTimes(_, _, _)
TrainTimes(a, g, n) ==
    IF n = 0 THEN a
    ELSE CHOOSE r \in { TrainTimes(x, g, n - 1) :
                          x \in { TrainPolicy(a, g).agent } } : TRUE

\* The files {filepath}/{filename}_{role} of one name and path, in the order
\* load_models reads them, and the network each holds.
Roles(kind) == IF kind = "DQN" THEN <<"net">> ELSE <<"actor", "critic">>

RoleNet(role) == IF role = "net" THEN "net" ELSE IF role = "actor" THEN "actor_net" ELSE "critic_net"

RoleSet(kind) == { Roles(kind)[i] : i \in DOMAIN Roles(kind) }

\* A file that does not exist.
Missing == <<>>

\* The content of a file written before the instance was constructed.
StoredParams == << <<7, 1>>, <<8, 1>> >>

\* save_models: torch.save of the state_dict of each online network.
SaveModels(a, fs) ==
    [ r \in DOMAIN fs |->
        IF r \in RoleSet(a.kind) THEN a.nets[RoleNet(r)] ELSE fs[r] ]

\* Mutant of TorchLoad: a missing file yields default parameters.
TorchLoadOrDefault(fs, role) == [ raised |-> FALSE, value |-> IF fs[role] = Missing THEN InitialParams(RoleNet(role), 0) ELSE fs[role] ]

\* torch.load: raises FileNotFoundError when the file does not exist.
TorchLoad(fs, role) == [ raised |-> fs[role] = Missing, value |-> fs[role] ]

\* load_models: load_state_dict(torch.load(...)) for each role in order; an
\* exception leaves the networks loaded before it overwritten.
RECURSIVE LoadFrom(_, _, _)
LoadFrom(a, fs, i) ==
    IF i > Len(Roles(a.kind))
    THEN [ agent |-> a, raised |-> FALSE ]
    ELSE LET role == Roles(a.kind)[i]
             loaded == TorchLoad(fs, role)
         IN IF loaded.raised
            THEN [ agent |-> a, raised |-> TRUE ]
            ELSE LoadFrom([ a EXCEPT !.nets[RoleNet(role)] = loaded.value ],
                          fs, i + 1)

LoadModels(a, fs) == LoadFrom(a, fs, 1)

(***************************************************************************)
(* SelectMultipleAlgorithmWindow.  A row is identified by its widget; a    *)
(* dict is the set of its <<key, value>> pairs.                            *)
(***************************************************************************)
\* The hyperparameters config/config_algorithm.yaml lists for an algorithm.
ConfigHyperparameters(algo_name) == { <<"lr", 0>> }

\* The hyperparameter sets SelectHyperWindow hands to its callback.
CustomParams == { { <<"lr", 1>> }, { <<"lr", 2>> } }

\* {}: the default of custom_hyperparams.get and of a missing config file.
EmptyParams == {}

\* No SelectHyperWindow is open.
NoCustomWindow == [ row_widget |-> 0 ]

\* Nothing was saved for the row.
NotSaved == <<>>

\* The row appended by add_algorithm_selection: the combo box shows the first
\* available algorithm, "Yes" is selected, and a Remove button is attached
\* when two rows exist already.
NewRow(widget, rows) ==
    [ widget |-> widget, combo |-> "DQN", use_default |-> TRUE,
      remove_button |-> Len(rows) >= 2 ]

\* The 0-based index enumerate() gives the row of the widget, -1 if none.
RowIndex(rows, widget) == Pos([ i \in DOMAIN rows |-> rows[i].widget ], widget) - 1

\* selection_rows.remove(row) for the row of the widget.
RemoveRow(rows, widget) == SelectSeq(rows, LAMBDA row : row.widget # widget)

\* row["use_default"] = use_default for the row of the widget.
SetUseDefault(rows, widget, use_default) ==
    [ i \in DOMAIN rows |->
        IF rows[i].widget = widget
        THEN [ rows[i] EXCEPT !.use_default = use_default ]
        ELSE rows[i] ]

\* dict[key] = value
DictSet(dict, key, value) ==
    [ k \in DOMAIN dict \cup {key} |-> IF k = key THEN value ELSE dict[k] ]

\* dict.get(key, default)
DictGet(dict, key, default) == IF key \in DOMAIN dict THEN dict[key] ELSE default

\* The list confirm_selection builds: per row, in order, the algorithm of
\* the combo box with the configured hyperparameters or with
\* custom_hyperparams.get(i, {}), i the row's index.
Selections(rows, custom) ==
    [ i \in DOMAIN rows |->
        [ Algorithm |-> rows[i].combo,
          Hyperparameters |->
              IF rows[i].use_default
              THEN ConfigHyperparameters(rows[i].combo)
              ELSE DictGet(custom, i - 1, EmptyParams) ] ]

\* The window has not been constructed.
NoWindow ==
    /\ selection_rows = <<>>
    /\ custom_hyperparams = <<>>
    /\ custom_window = NoCustomWindow
    /\ user_selections = <<>>
    /\ rows_hist = [ created |-> 0, saved |-> <<>> ]

(***************************************************************************)
(* State after construction of the thread.                                 *)
(***************************************************************************)
(***************************************************************************)
(* The set-up of training_loop, from set_seed to the head of the loop.     *)
(***************************************************************************)
\* The modules importlib finds under RL_algorithms.
KnownAlgorithms == Algorithms \cup Kinds

\* import_algorithm_instance: does import_module find the module?
ImportFails(algorithm_name) == algorithm_name \notin KnownAlgorithms

\* Mutant of PlatformClass: a platform that is not recognised gets a
\* Gymnasium environment.
PlatformClassDefaultGym(platform_name) ==
    IF platform_name = "DMCS" THEN "DMControlEnvironment" ELSE "GymEnvironment"

\* create_environment_instance: the class chosen for the platform, or the
\* exception raised.
PlatformClass(platform_name) ==
    IF platform_name = "Gymnasium" \/ platform_name = "MuJoCo"
    THEN "GymEnvironment"
    ELSE IF platform_name = "DMCS" THEN "DMControlEnvironment"
    ELSE "ValueError"

\* Mutant of EnvSeed: both environments get the configured seed.
EnvSeedShared(c, evaluation_env) == c.Seed

\* create_environment_instance: the seed of the environment.
EnvSeed(c, evaluation_env) ==
    IF ~evaluation_env THEN c.Seed ELSE c.Seed + 1

\* create_environment_instance for a supported platform.
CreateEnvironmentInstance(c, evaluation_env, instance) ==
    NewEnv(c.script, PlatformClass(c.selected_platform),
           EnvSeed(c, evaluation_env), instance)

\* The hyperparameters the constructor of the agent converts with int() or
\* float(), and those training_loop converts before the loop.
AgentReads(alg) ==
    CASE alg = "DQN" -> {"gamma", "lr", "target_update_freq"}
      [] alg = "DDPG" -> {"gamma", "tau", "actor_lr", "critic_lr"}
      [] alg = "SAC" -> {"gamma", "tau", "actor_lr", "critic_lr", "alpha_lr"}
      [] OTHER -> {}

LoopReads(alg) ==
    CASE alg = "PPO" -> {"max_steps_per_batch"}
      [] alg = "DQN" -> {"epsilon_min", "epsilon_decay"}
      [] OTHER -> {}

\* The statements of the set-up, in the order of the code.
SetupStages ==
    <<"set_seed", "import_algorithm", "create_env", "create_env_evaluation",
      "rl_agent", "memory", "logger", "read_intervals", "episode_start_time",
      "env_reset", "read_hyperparameters">>

\* The exception the set-up raises and the statement that raises it.
SetupError(c) ==
    IF ImportFails(c.Algorithm)
    THEN [type |-> "ModuleNotFoundError", stage |-> "import_algorithm"]
    ELSE IF PlatformClass(c.selected_platform) = "ValueError"
    THEN [type |-> "ValueError", stage |-> "create_env"]
    ELSE IF c.missing \cap AgentReads(c.Algorithm) # {}
    THEN [type |-> "TypeError", stage |-> "rl_agent"]
    ELSE IF c.missing \cap LoopReads(c.Algorithm) # {}
    THEN [type |-> "TypeError", stage |-> "read_hyperparameters"]
    ELSE NoError

\* The statements of the set-up that complete.
SetupCompleted(c) ==
    IF SetupError(c) = NoError THEN SetupStages
    ELSE SubSeq(SetupStages, 1, Pos(SetupStages, SetupError(c).stage) - 1)

\* No evaluation has been made.
NoTable == df_log_evaluation = <<>> /\ df_grouped = <<>>

ThreadCreated ==
    /\ thread_is_running = TRUE
    /\ stop_request = [when |-> "never", step |-> 0]
    /\ is_running = TRUE
    /\ total_step_counter = 0
    /\ episode_timesteps = 0
    /\ episode_num = 0
    /\ episode_reward = 0
    /\ exploration_rate = <<1, 1>>
    /\ eps_decays = 0
    /\ state = 0
    /\ env = NoEnv
    /\ memory = <<>>
    /\ train_calls = <<>>
    /\ log_train = <<>>
    /\ checkpoints = <<>>
    /\ eval_calls = <<>>
    /\ window = <<>>
    /\ step_ops = <<>>
    /\ training_completed = TRUE
    /\ final_ops = <<>>
    /\ completed_signal = <<>>
    /\ env_evaluation = NoEnv
    /\ setup_ops = <<>>
    /\ error = NoError
    /\ now = 0
    /\ episode_start_time = 0
    /\ total_episode_time = 0
    /\ estimates = <<>>

\* No operation has been applied to the agent.
NoHist ==
    [ op |-> "none", raised |-> FALSE, changed |-> {}, pre_changed |-> {},
      calls |-> 0, trained |-> 0, saved |-> <<>> ]

\* The parameter sets in which two states of an instance differ.
Changed(before, after) == { n \in DOMAIN before : before[n] # after[n] }

Init ==
    /\ config_data \in Configs
    /\ pc = "created"
    /\ ThreadCreated
    /\ rl_agent = NoAgent
    /\ files = <<>>
    /\ agent_hist = NoHist
    /\ NoWindow
    /\ NoTable

\* What the set-up creates, the clock and the record of a failure.
run_vars == <<env_evaluation, setup_ops, error, now, episode_start_time,
              total_episode_time, estimates, df_log_evaluation, df_grouped>>

loop_vars == <<total_step_counter, episode_timesteps, episode_num,
               episode_reward, exploration_rate, eps_decays, state, env,
               memory, train_calls, log_train, checkpoints, eval_calls,
               window, step_ops, rl_agent>>

\* algorithm(observation_size, action_num, hyperparameters) after set_seed.
LoopAgent(c) ==
    IF c.Algorithm \in Kinds THEN NewAgent(c.Algorithm, c, c.Seed)
    ELSE OpaqueAgent(c.Algorithm)

\* TrainingThread.stop().  A call made after the loop has ended changes
\* nothing the thread reads and is left out.
ThreadStop ==
    /\ thread_is_running
    /\ pc \in {"created", "loop"}
    /\ thread_is_running' = FALSE
    /\ stop_request' =
          [when |-> IF pc = "created" THEN "before_run" ELSE "during",
           step |-> total_step_counter]
    /\ UNCHANGED <<files, agent_hist>>
    /\ UNCHANGED run_vars
    /\ UNCHANGED <<gui_vars, config_data, pc, is_running, loop_vars,
                   training_completed, final_ops, completed_signal>>

\* TrainingThread.run(): training_loop from its first line to the for loop.
\* The set-up of training_loop as far as it gets.
Setup ==
    LET c == config_data
        completed == SetupCompleted(c)
        Did(stage) == Pos(completed, stage) # 0
        created == IF Did("create_env")
                   THEN CreateEnvironmentInstance(c, FALSE, 1) ELSE NoEnv
        r == EnvReset(created)
    IN /\ setup_ops' = completed
       /\ error' = SetupError(c)
       /\ env' = IF Did("env_reset") THEN r.env ELSE created
       /\ state' = IF Did("env_reset") THEN r.obs ELSE state
       /\ env_evaluation' = IF Did("create_env_evaluation")
                            THEN CreateEnvironmentInstance(c, TRUE, 2)
                            ELSE NoEnv
       /\ rl_agent' = IF Did("rl_agent") THEN LoopAgent(c) ELSE rl_agent
       /\ episode_start_time' = IF Did("episode_start_time") THEN now
                                ELSE episode_start_time
       /\ total_episode_time' = 0

\* TrainingThread.run() when the set-up raises: the exception leaves
\* training_loop and run(), and the thread ends.
SetupRaises ==
    /\ pc = "created"
    /\ SetupError(config_data) # NoError
    /\ pc' = "raised"
    /\ is_running' = IsRunningArgument(thread_is_running)
    /\ Setup
    /\ UNCHANGED <<files, agent_hist, now, estimates, df_log_evaluation,
                   df_grouped>>
    /\ UNCHANGED <<gui_vars, config_data, thread_is_running, stop_request,
                   total_step_counter, episode_timesteps, episode_num,
                   episode_reward, exploration_rate, eps_decays, memory,
                   train_calls, log_train, checkpoints, eval_calls, window,
                   step_ops, training_completed, final_ops, completed_signal>>

ThreadRun ==
    /\ pc = "created"
    /\ SetupError(config_data) = NoError
    /\ pc' = "loop"
    /\ is_running' = IsRunningArgument(thread_is_running)
    /\ Setup
    /\ episode_timesteps' = 0
    /\ episode_num' = 0
    /\ episode_reward' = 0
    /\ exploration_rate' = <<1, 1>>
    /\ training_completed' = TRUE
    /\ UNCHANGED <<files, agent_hist, now, estimates, df_log_evaluation,
                   df_grouped>>
    /\ UNCHANGED <<gui_vars, config_data, thread_is_running, stop_request,
                   total_step_counter, eps_decays, memory, train_calls,
                   log_train, checkpoints, eval_calls, window, step_ops,
                   final_ops, completed_signal>>

\* if not is_running: training_completed = False; break
LoopInterrupt ==
    /\ pc = "loop"
    /\ total_step_counter < config_data.steps_training
    /\ ~is_running
    /\ training_completed' = FALSE
    /\ pc' = BreakTarget
    /\ UNCHANGED <<files, agent_hist>>
    /\ UNCHANGED run_vars
    /\ UNCHANGED <<gui_vars, config_data, thread_is_running, stop_request, is_running,
                   loop_vars, final_ops, completed_signal>>

\* The body of the for loop: a whole iteration, or (raises) an iteration as
\* far as the statement at which a zero hyperparameter raises.
LoopIteration(raises) ==
    /\ LET c == config_data
           alg == c.Algorithm
           t == total_step_counter
           decays == Decays(alg, t, c.steps_exploration)
           rate == IF decays
                   THEN DecayRate(exploration_rate, c.eps[1], c.eps[2])
                   ELSE exploration_rate
       IN \E explore \in (IF decays THEN DrawOutcomes(rate) ELSE {FALSE}),
             out \in EnvOutcomes(env), g \in Grads,
             d \in StepDurations(c.clock) :
          LET action == SelectAction(alg, t, c.steps_exploration, explore,
                                     state)
              stepped == EnvStep(env, action, out)
              ret == stepped.ret
              mem == Append(memory,
                            Transition(state, action, ret,
                                       LogProb(alg, state)))
              timesteps == CountStep(episode_timesteps)
              reward == episode_reward + ret.reward
              ended == EpisodeEnd(ret)
              point == RaisePoint(c, t, ended, episode_num, timesteps)
              trained == point # "train_policy"
              logged == ended /\ trained /\ point # "time_remaining"
              booked == logged /\ point # "save_checkpoint"
              n == IF trained
                   THEN NumUpdates(alg, t, c.G, c.batch_size,
                                   c.steps_exploration, c.max_steps_per_batch)
                   ELSE 0
              begun == IF ~trained /\ alg = "DQN" THEN 1 ELSE 0
              checkpoint == booked /\ CheckpointDue(t, c.log_interval)
              evaluate == point = "none"
                          /\ EvaluationDue(t, c.evaluation_interval)
              reset == EnvReset(stepped.env)
              trained_agent == IF begun = 1 THEN TrainPolicyRaises(rl_agent, g)
                               ELSE TrainTimes(rl_agent, g, n)
              loop_env == IF booked THEN reset.env ELSE stepped.env
              time == now + d
              episode_time == time - episode_start_time
              estimate == TimeRemaining(total_episode_time + episode_time,
                                        episode_num, c.steps_training, t,
                                        timesteps)
          IN /\ (point # "none") = raises
             /\ pc' = IF raises THEN "raised" ELSE pc
             /\ error' = IF raises
                         THEN [type |-> "ZeroDivisionError", stage |-> point]
                         ELSE error
             /\ exploration_rate' = rate
             /\ eps_decays' = IF decays THEN eps_decays + 1 ELSE eps_decays
             /\ memory' = mem
             /\ train_calls' = train_calls
                                 \o Repeat(TrainCall(alg, t, mem), n + begun)
             /\ rl_agent' = trained_agent
             /\ now' = time
             /\ IF logged
                THEN /\ log_train' = Append(log_train,
                            [episode |-> episode_num + 1, reward |-> reward,
                             steps |-> timesteps,
                             total_steps |-> LoggedTotalSteps(t),
                             episode_time |-> episode_time])
                     /\ total_episode_time' = total_episode_time + episode_time
                     /\ estimates' = Append(estimates, estimate)
                ELSE UNCHANGED <<log_train, total_episode_time, estimates>>
             /\ checkpoints' = IF checkpoint THEN Append(checkpoints, t + 1)
                               ELSE checkpoints
             /\ IF booked
                THEN /\ state' = reset.obs
                     /\ episode_timesteps' = ResetTimesteps(timesteps)
                     /\ episode_num' = episode_num + 1
                     /\ episode_reward' = ResetReward(reward)
                     /\ episode_start_time' = time
                ELSE /\ state' = ret.next_state
                     /\ episode_timesteps' = timesteps
                     /\ episode_reward' = reward
                     /\ UNCHANGED <<episode_num, episode_start_time>>
             /\ IF evaluate
                THEN /\ eval_calls' =
                           Append(eval_calls,
                                  EvalCall(t, c.number_eval_episodes,
                                           Len(train_calls')))
                     /\ df_log_evaluation' =
                           df_log_evaluation
                             \o EvaluationRecords(
                                   IF EvaluationEnvironment = "env"
                                   THEN loop_env ELSE env_evaluation,
                                   t, c.number_eval_episodes)
                     /\ df_grouped' = GroupByLast(df_log_evaluation')
                     /\ env' = IF EvaluationEnvironment = "env"
                               THEN EvaluatePolicyLoop(loop_env,
                                        c.number_eval_episodes)
                               ELSE loop_env
                     /\ env_evaluation' =
                           IF EvaluationEnvironment = "env_evaluation"
                           THEN EvaluatePolicyLoop(env_evaluation,
                                    c.number_eval_episodes)
                           ELSE env_evaluation
                ELSE /\ env' = loop_env
                     /\ UNCHANGED <<eval_calls, env_evaluation,
                                    df_log_evaluation, df_grouped>>
             /\ window' = window
                    \o (IF logged
                        THEN << [sig |-> "time_remaining",
                                 val |-> estimate.emitted],
                                [sig |-> "episode", val |-> episode_num + 1],
                                [sig |-> "reward", val |-> reward],
                                [sig |-> "episode_steps", val |-> timesteps] >>
                        ELSE <<>>)
                    \o (IF point = "none"
                        THEN << [sig |-> "progress",
                                 val |-> Progress(t, c.steps_training)],
                                [sig |-> "step", val |-> t + 1] >>
                        ELSE <<>>)
             /\ step_ops' = StepOps(n + begun, logged, checkpoint, booked,
                                    evaluate, point = "none")
             /\ total_step_counter' = t + 1
    /\ UNCHANGED <<files, agent_hist, setup_ops>>
    /\ UNCHANGED <<gui_vars, config_data, thread_is_running, stop_request,
                   is_running, training_completed, final_ops,
                   completed_signal>>

\* One whole iteration of the for loop.
LoopStep ==
    /\ pc = "loop"
    /\ total_step_counter < config_data.steps_training
    /\ is_running
    /\ LoopIteration(FALSE)

\* An iteration that a zero hyperparameter ends with ZeroDivisionError: the
\* exception leaves training_loop and run(), and the thread ends.
LoopStepRaises ==
    /\ pc = "loop"
    /\ total_step_counter < config_data.steps_training
    /\ is_running
    /\ LoopIteration(TRUE)

\* range(steps_training) is exhausted: the loop ends without a break.
LoopExhaust ==
    /\ pc = "loop"
    /\ total_step_counter = config_data.steps_training
    /\ pc' = "save_logs"
    /\ UNCHANGED <<files, agent_hist>>
    /\ UNCHANGED run_vars
    /\ UNCHANGED <<gui_vars, config_data, thread_is_running, stop_request, is_running,
                   loop_vars, training_completed, final_ops, completed_signal>>

\* logger.save_logs()
SaveLogs ==
    /\ pc = "save_logs"
    /\ final_ops' = Append(final_ops, "save_logs")
    /\ pc' = "policy_loop_test"
    /\ UNCHANGED <<files, agent_hist>>
    /\ UNCHANGED run_vars
    /\ UNCHANGED <<gui_vars, config_data, thread_is_running, stop_request, is_running,
                   loop_vars, training_completed, completed_signal>>

\* policy_loop_test(env, rl_agent, logger, algo_name=algorithm_name)
PolicyLoopTest ==
    /\ pc = "policy_loop_test"
    /\ final_ops' = Append(final_ops, "policy_loop_test")
    /\ pc' = "emit"
    /\ UNCHANGED <<files, agent_hist>>
    /\ UNCHANGED run_vars
    /\ UNCHANGED <<gui_vars, config_data, thread_is_running, stop_request, is_running,
                   loop_vars, training_completed, completed_signal>>

\* training_window.training_completed_signal.emit(training_completed)
EmitCompleted ==
    /\ pc = "emit"
    /\ final_ops' = Append(final_ops, "emit")
    /\ completed_signal' = Append(completed_signal, training_completed)
    /\ pc' = "done"
    /\ UNCHANGED <<files, agent_hist>>
    /\ UNCHANGED run_vars
    /\ UNCHANGED <<gui_vars, config_data, thread_is_running, stop_request, is_running,
                   loop_vars, training_completed>>

\* The statements of the training thread.
ThreadNext ==
    \/ ThreadRun
    \/ LoopInterrupt
    \/ LoopStep
    \/ LoopExhaust
    \/ SaveLogs
    \/ PolicyLoopTest
    \/ EmitCompleted

Next ==
    \/ ThreadStop
    \/ ThreadRun
    \/ LoopInterrupt
    \/ LoopStep
    \/ LoopExhaust
    \/ SaveLogs
    \/ PolicyLoopTest
    \/ EmitCompleted

Spec == Init /\ [][Next]_vars

\* The runs whose ending is followed: every algorithm, step budget, interval,
\* exploration length and batch length, with one update per step, batch size
\* 1 and the default schedule (none of which the ending of a run reads), and
\* the end-to-end scenario.
FairConfigs ==
    E2EConfigs \cup
    { c \in FreeConfigs :
        /\ c.G = 1 /\ c.batch_size = 1 /\ c.eps = DefaultEps
        /\ c.number_eval_episodes = 1 }

FairInit == Init /\ config_data \in FairConfigs

\* The training thread is a sequential program that the scheduler keeps
\* running: whenever it has a next statement, it eventually executes it.
FairSpec == FairInit /\ [][Next]_vars /\ WF_vars(ThreadNext)

(***************************************************************************)
(* Runs over configurations the set-up or the loop may reject, and over    *)
(* every supported platform and two seeds.                                 *)
(***************************************************************************)
\* The platforms create_environment_instance supports.
Platforms == {"Gymnasium", "MuJoCo", "DMCS"}

\* A valid configuration with a plain cadence.
SetupBase ==
    [ Algorithm |-> "DDPG", steps_training |-> MaxSteps,
      evaluation_interval |-> 1, log_interval |-> 1,
      number_eval_episodes |-> 1, G |-> 1, batch_size |-> 1,
      steps_exploration |-> 0, max_steps_per_batch |-> 1,
      eps |-> DefaultEps, Seed |-> 0, target_update_freq |-> 1,
      tau |-> <<1, 1>>, policy_update_freq |-> 1,
      selected_platform |-> "Gymnasium", missing |-> {}, clock |-> "steady",
      script |-> "free" ]

ValidSetupConfigs ==
    { [ SetupBase EXCEPT !.Algorithm = a, !.selected_platform = p,
                         !.Seed = seed, !.steps_training = n ] :
        a \in Algorithms, p \in Platforms, seed \in Seeds, n \in 1..MaxSteps }

\* An algorithm no module is named after, a platform that is not supported.
UnknownIdentifierConfigs ==
    { [ SetupBase EXCEPT !.Algorithm = a, !.selected_platform = p ] :
        a \in Algorithms \cup {"Unknown"}, p \in Platforms \cup {"Unity"} }
    \ ValidSetupConfigs

\* One hyperparameter that the agent or the loop converts is missing.
MissingHyperparameterConfigs ==
    { [ SetupBase EXCEPT !.Algorithm = a, !.missing = {h} ] :
        a \in Algorithms, h \in {"max_steps_per_batch", "epsilon_min",
                                 "target_update_freq", "tau"} }

\* One of the four divisors is zero.
ZeroHyperparameterConfigs ==
    { [ SetupBase EXCEPT !.Algorithm = a, !.evaluation_interval = 0 ] :
        a \in Algorithms }
    \cup { [ SetupBase EXCEPT !.Algorithm = a, !.log_interval = 0 ] :
             a \in Algorithms }
    \cup { [ SetupBase EXCEPT !.Algorithm = "PPO",
                              !.max_steps_per_batch = 0 ],
           [ SetupBase EXCEPT !.Algorithm = "DQN",
                              !.target_update_freq = 0 ] }

SetupConfigs ==
    ValidSetupConfigs \cup UnknownIdentifierConfigs
        \cup MissingHyperparameterConfigs \cup ZeroHyperparameterConfigs

SetupInit ==
    /\ config_data \in SetupConfigs
    /\ pc = "created"
    /\ ThreadCreated
    /\ rl_agent = NoAgent
    /\ files = <<>>
    /\ agent_hist = NoHist
    /\ NoWindow
    /\ NoTable

SetupNext == Next \/ SetupRaises \/ LoopStepRaises

SpecSetup == SetupInit /\ [][SetupNext]_vars

(***************************************************************************)
(* Runs under a clock that may stand still or be set back.                 *)
(***************************************************************************)
ClockConfigs ==
    { [ SetupBase EXCEPT !.clock = "free", !.steps_training = n,
                         !.log_interval = l ] :
        n \in 1..MaxSteps, l \in 1..MaxParam }

ClockInit ==
    /\ config_data \in ClockConfigs
    /\ pc = "created"
    /\ ThreadCreated
    /\ rl_agent = NoAgent
    /\ files = <<>>
    /\ agent_hist = NoHist
    /\ NoWindow
    /\ NoTable

SpecClock == ClockInit /\ [][Next]_vars

(***************************************************************************)
(* The grouping of an evaluation log, applied to logs of up to MaxLog      *)
(* records in the order they were written.                                 *)
(***************************************************************************)
\* The records of a log: written at timestep 0 or 1, the episode present,
\* the reward present or missing.
LogRecords ==
    [ Total_Timesteps : {0, 1}, Episode : {<<1>>, <<2>>},
      Reward : {NaN, <<0>>, <<1>>} ]

\* The logs: the timesteps are in the order the evaluations were made.
Logs ==
    { df \in UNION { [1..n -> LogRecords] : n \in 0..MaxLog } :
        \A i \in DOMAIN df :
            i > 1 => df[i - 1].Total_Timesteps <= df[i].Total_Timesteps }

TableInit ==
    /\ config_data = SetupBase
    /\ pc = "table"
    /\ ThreadCreated
    /\ rl_agent = NoAgent
    /\ files = <<>>
    /\ agent_hist = NoHist
    /\ NoWindow
    /\ df_log_evaluation \in Logs
    /\ df_grouped = <<>>

\* df_grouped = df_log_evaluation.groupby("Total Timesteps",
\*                                        as_index=False).last()
GroupBy ==
    /\ pc = "table"
    /\ pc' = "grouped"
    /\ df_grouped' = GroupByLast(df_log_evaluation)
    /\ UNCHANGED <<gui_vars, config_data, thread_is_running, stop_request, is_running,
                   loop_vars, training_completed, final_ops, completed_signal,
                   files, agent_hist, env_evaluation, setup_ops, error, now,
                   episode_start_time, total_episode_time, estimates,
                   df_log_evaluation>>

SpecTable == TableInit /\ [][GroupBy]_vars

(***************************************************************************)
(* The algorithm selection window operated by the user: rows are added and *)
(* removed, "Yes" and "Custom" are clicked, the hyperparameter window      *)
(* calls back, "Next" is clicked, in any order.                            *)
(***************************************************************************)
\* __init__: two rows, neither with a Remove button.
WindowInit ==
    /\ config_data = SetupBase
    /\ pc = "select_algorithms"
    /\ ThreadCreated
    /\ rl_agent = NoAgent
    /\ files = <<>>
    /\ agent_hist = NoHist
    /\ NoTable
    /\ selection_rows = <<NewRow(1, <<>>), NewRow(2, <<NewRow(1, <<>>)>>)>>
    /\ custom_hyperparams = <<>>
    /\ custom_window = NoCustomWindow
    /\ user_selections = <<>>
    /\ rows_hist = [ created |-> 2,
                     saved |-> [ w \in 1..MaxRows |-> NotSaved ] ]

not_gui_vars == <<config_data, thread_is_running, stop_request, pc, is_running,
                  loop_vars, training_completed, final_ops, completed_signal,
                  files, agent_hist, run_vars>>

\* The widgets of the rows shown.
RowWidgets == { selection_rows[i].widget : i \in DOMAIN selection_rows }

\* add_algorithm_selection(): "Add Algorithm" is clicked.
AddAlgorithmSelection ==
    /\ pc = "select_algorithms"
    /\ rows_hist.created < MaxRows
    /\ selection_rows' = Append(selection_rows,
                                NewRow(rows_hist.created + 1, selection_rows))
    /\ rows_hist' = [ rows_hist EXCEPT !.created = @ + 1 ]
    /\ UNCHANGED <<custom_hyperparams, custom_window, user_selections>>
    /\ UNCHANGED not_gui_vars

\* remove_algorithm_selection(row_widget): the row's Remove button is clicked.
RemoveAlgorithmSelection ==
    /\ pc = "select_algorithms"
    /\ \E i \in DOMAIN selection_rows :
          /\ selection_rows[i].remove_button
          /\ selection_rows' = RemoveRow(selection_rows,
                                         selection_rows[i].widget)
          /\ rows_hist' = [ rows_hist EXCEPT
                              !.saved[selection_rows[i].widget] = NotSaved ]
    /\ UNCHANGED <<custom_hyperparams, custom_window, user_selections>>
    /\ UNCHANGED not_gui_vars

\* set_hyper_choice(row_widget, True, ...): the row's "Yes" is clicked.
SetHyperChoice ==
    /\ pc = "select_algorithms"
    /\ \E widget \in RowWidgets :
          selection_rows' = SetUseDefault(selection_rows, widget, TRUE)
    /\ UNCHANGED <<custom_hyperparams, custom_window, user_selections,
                   rows_hist>>
    /\ UNCHANGED not_gui_vars

\* open_custom_hyperparams(algorithm, row_widget, ...): the row's "Custom"
\* is clicked; the window replaces the one opened before.
OpenCustomHyperparams ==
    /\ pc = "select_algorithms"
    /\ \E widget \in RowWidgets :
          /\ selection_rows' = SetUseDefault(selection_rows, widget, FALSE)
          /\ custom_window' = [ row_widget |-> widget ]
    /\ UNCHANGED <<custom_hyperparams, user_selections, rows_hist>>
    /\ UNCHANGED not_gui_vars

\* save_custom_params(row_widget, hyperparameters): the callback of the
\* hyperparameter window opened last, for a row that is shown or was removed
\* since.
SaveCustomParams ==
    /\ pc = "select_algorithms"
    /\ custom_window # NoCustomWindow
    /\ \E hyperparameters \in CustomParams :
          LET widget == custom_window.row_widget
              i == RowIndex(selection_rows, widget)
          IN /\ custom_hyperparams' =
                   IF i >= 0
                   THEN DictSet(custom_hyperparams, i, hyperparameters)
                   ELSE custom_hyperparams
             /\ rows_hist' =
                   IF i >= 0
                   THEN [ rows_hist EXCEPT
                            !.saved[widget] = <<hyperparameters>> ]
                   ELSE rows_hist
    /\ UNCHANGED <<selection_rows, custom_window, user_selections>>
    /\ UNCHANGED not_gui_vars

\* confirm_selection(): "Next" is clicked; the window closes and the
\* platform window is shown.
ConfirmSelection ==
    /\ pc = "select_algorithms"
    /\ selection_rows # <<>>
    /\ pc' = "select_platform"
    /\ user_selections' = Selections(selection_rows, custom_hyperparams)
    /\ UNCHANGED <<selection_rows, custom_hyperparams, custom_window,
                   rows_hist>>
    /\ UNCHANGED <<config_data, thread_is_running, stop_request, is_running,
                   loop_vars, training_completed, final_ops, completed_signal,
                   files, agent_hist, run_vars>>

WindowNext ==
    \/ AddAlgorithmSelection
    \/ RemoveAlgorithmSelection
    \/ SetHyperChoice
    \/ OpenCustomHyperparams
    \/ SaveCustomParams
    \/ ConfirmSelection

SpecWindow == WindowInit /\ [][WindowNext]_vars

(***************************************************************************)
(* An agent operated directly: constructed, then trained, asked for         *)
(* actions, saved, restored and replaced by a fresh instance in any order. *)
(***************************************************************************)
AgentInit ==
    /\ config_data \in AgentConfigs
    /\ pc = "no_thread"
    /\ ThreadCreated
    /\ rl_agent = NewAgent(config_data.Algorithm, config_data,
                           config_data.Seed)
    /\ files \in [RoleSet(config_data.Algorithm) -> {Missing, StoredParams}]
    /\ agent_hist = NoHist
    /\ NoWindow
    /\ NoTable

thread_vars == <<gui_vars, config_data, thread_is_running, stop_request, pc, is_running,
                 total_step_counter, episode_timesteps, episode_num,
                 episode_reward, exploration_rate, eps_decays, state, env,
                 memory, train_calls, log_train, checkpoints, eval_calls,
                 window, step_ops, training_completed, final_ops,
                 completed_signal, env_evaluation, setup_ops, error, now,
                 episode_start_time, total_episode_time, estimates,
                 df_log_evaluation, df_grouped>>

\* The instance is not driven by a training thread.
AgentIdle == pc = "no_thread"

\* rl_agent.train_policy(memory, batch_size)
AgentTrain ==
    /\ AgentIdle
    /\ agent_hist.trained < MaxTrain
    /\ \E g \in Grads :
          LET r == TrainPolicy(rl_agent, g)
          IN /\ rl_agent' = r.agent
             /\ agent_hist' = [ agent_hist EXCEPT
                                  !.op = "train_policy", !.raised = FALSE,
                                  !.changed = Changed(rl_agent.nets,
                                                      r.agent.nets),
                                  !.pre_changed = Changed(rl_agent.nets,
                                                          r.pre_sync),
                                  !.calls = @ + 1, !.trained = @ + 1 ]
    /\ UNCHANGED <<thread_vars, files>>

\* rl_agent.select_action_from_policy(state): a forward pass under no_grad.
AgentSelect ==
    /\ AgentIdle
    /\ agent_hist' = [ agent_hist EXCEPT
                         !.op = "select_action_from_policy",
                         !.raised = FALSE, !.changed = {},
                         !.pre_changed = {} ]
    /\ UNCHANGED <<thread_vars, files, rl_agent>>

\* rl_agent.save_models(filename, filepath)
AgentSave ==
    /\ AgentIdle
    /\ files' = SaveModels(rl_agent, files)
    /\ agent_hist' = [ agent_hist EXCEPT
                         !.op = "save_models", !.raised = FALSE,
                         !.changed = {}, !.pre_changed = {},
                         !.saved = rl_agent.nets ]
    /\ UNCHANGED <<thread_vars, rl_agent>>

\* rl_agent.load_models(filename, filepath)
AgentLoad ==
    /\ AgentIdle
    /\ LET r == LoadModels(rl_agent, files)
       IN /\ rl_agent' = r.agent
          /\ agent_hist' = [ agent_hist EXCEPT
                               !.op = "load_models", !.raised = r.raised,
                               !.changed = Changed(rl_agent.nets,
                                                   r.agent.nets),
                               !.pre_changed = {} ]
    /\ UNCHANGED <<thread_vars, files>>

\* A fresh instance of the same class and hyperparameters replaces the agent.
AgentConstruct ==
    /\ AgentIdle
    /\ \E seed \in Seeds :
          rl_agent' = NewAgent(config_data.Algorithm, config_data, seed)
    /\ agent_hist' = [ agent_hist EXCEPT
                         !.op = "construct", !.raised = FALSE,
                         !.changed = {}, !.pre_changed = {},
                         !.calls = 0 ]
    /\ UNCHANGED <<thread_vars, files>>

AgentNext ==
    \/ AgentTrain
    \/ AgentSelect
    \/ AgentSave
    \/ AgentLoad
    \/ AgentConstruct

SpecAgent == AgentInit /\ [][AgentNext]_vars

\* An agent operated directly or driven by the training thread.
SpecAll == (Init \/ AgentInit) /\ [][Next \/ AgentNext]_vars

(***************************************************************************)
(* Properties.                                                             *)
(***************************************************************************)
N == config_data.steps_training

\* The number of train_policy calls made in the step with 0-based index t.
UpdatesInStep(t) == Cardinality({ i \in 1..Len(train_calls) :
                                    train_calls[i].step = t })

\* A stop() that asks for a cancellation: made before run(), or while the
\* loop still has a step to take.
CancelRequested ==
    \/ stop_request.when = "before_run"
    \/ stop_request.when = "during" /\ stop_request.step < N

\* C1: once stop() has been called while training_loop is executing, the
\* loop begins at most one further environment step.
C1_CancelWithinOneStep ==
    stop_request.when = "during" =>
        total_step_counter - stop_request.step <= 1

\* C2: the completion flag emitted is true iff all steps_training steps were
\* executed and no cancellation was requested; a run cancelled after step k
\* halts at or before step k + 1 and emits False.
C2_CompletionFlagIffUncancelled ==
    completed_signal # <<>> =>
        /\ completed_signal[1] = (total_step_counter = N /\ ~CancelRequested)
        /\ CancelRequested /\ stop_request.when = "during" =>
              total_step_counter <= stop_request.step + 1

FinalOrder == <<"save_logs", "policy_loop_test", "emit">>

\* C3: on both termination paths save_logs, policy_loop_test and the
\* emission of the completion flag happen once each, in that order; the main
\* loop takes no step, writes no transition and runs no update after the log
\* flush; every run ends with the completion flag emitted.
C3_FinalisationOnEveryPath ==
    /\ [](/\ Len(final_ops) <= Len(FinalOrder)
          /\ final_ops = SubSeq(FinalOrder, 1, Len(final_ops))
          /\ Len(completed_signal) = (IF pc = "done" THEN 1 ELSE 0)
          /\ pc = "done" => final_ops = FinalOrder
          /\ final_ops = <<>> <=> pc \in {"created", "loop", "save_logs"})
    /\ [][final_ops # <<>> =>
             UNCHANGED <<total_step_counter, env, memory, train_calls>>]_vars
    /\ <>(pc = "done" /\ completed_signal = <<training_completed>>)

\* C3 witness: a cancelled run that has flushed, verified and emitted.
C3_Witness ==
    /\ pc = "done"
    /\ ~training_completed
    /\ final_ops = FinalOrder
    /\ completed_signal = <<FALSE>>

\* The reset observation the loop continued from after step i ended an
\* episode: the (k+1)-th reset, k the number of episode ends up to step i.
EpisodeEndsUpTo(i) ==
    Cardinality({ j \in 1..i : EpisodeEnd(env.returns[j]) })

StateBefore(i) ==
    IF i = 1 \/ EpisodeEnd(env.returns[i - 1])
    THEN env.resets[EpisodeEndsUpTo(i - 1) + 1]
    ELSE env.returns[i - 1].next_state

\* C4: the memory holds exactly one transition per environment step
\* executed, in step order; transition i carries the state the action of
\* step i was chosen in, that action, and the reward, next_state and done
\* that step i returned.
C4_OneTransitionPerStep ==
    /\ Len(memory) = Len(env.returns)
    /\ Len(memory) = total_step_counter
    /\ \A i \in 1..Len(memory) :
          /\ memory[i].state = StateBefore(i)
          /\ memory[i].action = env.returns[i].action
          /\ memory[i].action.in_state = memory[i].state
          /\ memory[i].reward = env.returns[i].reward
          /\ memory[i].next_state = env.returns[i].next_state
          /\ memory[i].done = env.returns[i].done

\* C4 witness: a cancelled run and a completed run are covered by the
\* invariant; here a run that crossed an episode boundary and continued.
C4_Witness ==
    /\ Len(memory) >= 3
    /\ memory[1].done
    /\ ~memory[2].done
    /\ memory[3].state = memory[2].next_state
    /\ memory[2].state # memory[1].next_state

\* C5: no train_policy call is made while the memory holds fewer than
\* batch_size transitions (families that pass batch_size).
C5_NoUpdateBelowBatchSize ==
    \A i \in 1..Len(train_calls) :
        train_calls[i].with_batch_size =>
            train_calls[i].mem_len >= config_data.batch_size

\* The number of transitions the memory holds at the training point of the
\* step with 0-based index t (by C4, one per step taken so far).
MemLenAtTraining(t) == t + 1

\* C6: in the DQN family a step runs exactly G updates when the memory holds
\* more than batch_size transitions at its training point, and none when it
\* holds at most batch_size.
C6_DqnUpdatesOnceMemoryExceedsBatch ==
    config_data.Algorithm = "DQN" =>
        \A t \in 0..(total_step_counter - 1) :
            UpdatesInStep(t) =
                (IF MemLenAtTraining(t) > config_data.batch_size
                 THEN config_data.G ELSE 0)

Max0(x) == IF x > 0 THEN x ELSE 0

\* C7: in the generic off-policy family the action of step t comes from
\* env.sample_action when t < steps_exploration and from the policy
\* otherwise; the step runs G updates when t >= steps_exploration and none
\* before; a completed run performs G * max(0, N - steps_exploration).
C7_GenericFamilyCadence ==
    config_data.Algorithm \notin {"PPO", "DQN"} =>
        /\ \A t \in 0..(total_step_counter - 1) :
              /\ memory[t + 1].action.src =
                    (IF t < config_data.steps_exploration
                     THEN "sample_action" ELSE "select_action_from_policy")
              /\ UpdatesInStep(t) =
                    (IF t >= config_data.steps_exploration
                     THEN config_data.G ELSE 0)
        /\ pc = "done" /\ training_completed =>
              Len(train_calls) =
                  config_data.G * Max0(N - config_data.steps_exploration)

\* C7 witness: a completed run with exploration steps and G = 2.
C7_Witness ==
    /\ config_data.Algorithm = "DDPG"
    /\ pc = "done" /\ training_completed
    /\ config_data.steps_exploration = 1
    /\ config_data.G = 2
    /\ N = 3
    /\ Len(train_calls) = 4
    /\ memory[1].action.src = "sample_action"
    /\ memory[2].action.src = "select_action_from_policy"

\* C8: in the PPO family every step takes (action, auxiliary) from the
\* policy in the current state and stores the transition with that
\* auxiliary value; a step runs one update when its completed-step count is
\* a multiple of max_steps_per_batch and none otherwise.
C8_PpoCadence ==
    config_data.Algorithm = "PPO" =>
        \A t \in 0..(total_step_counter - 1) :
            /\ memory[t + 1].action =
                  [src |-> "select_action_from_policy",
                   in_state |-> memory[t + 1].state]
            /\ memory[t + 1].log_prob = <<memory[t + 1].state>>
            /\ UpdatesInStep(t) =
                  (IF (t + 1) % config_data.max_steps_per_batch = 0
                   THEN 1 ELSE 0)

\* C8 witness: three steps with a batch of two, one update (in step 2).
C8_Witness ==
    /\ config_data.Algorithm = "PPO"
    /\ config_data.max_steps_per_batch = 2
    /\ total_step_counter = 3
    /\ Len(train_calls) = 1
    /\ train_calls[1].step = 1
    /\ ~train_calls[1].with_batch_size

epsilon_decay == config_data.eps[1]
epsilon_min == config_data.eps[2]

\* After k >= 1 decay applications the rate is max(epsilon_min, decay^k).
ClosedForm ==
    RatEq(exploration_rate,
          PyMax(epsilon_min, RatPow(epsilon_decay, eps_decays)))

\* C9 (as claimed): for every epsilon_min and decay factor, after k decay
\* applications from 1 the rate is max(epsilon_min, decay^k), and it is
\* never below epsilon_min.
C9_ScheduleClosedForm ==
    config_data.Algorithm = "DQN" /\ eps_decays >= 1 =>
        /\ ClosedForm
        /\ ~RatLess(exploration_rate, epsilon_min)

\* C9 (amended): the closed form holds for every epsilon_min and every decay
\* factor in [0, 1]; for every epsilon_min and decay factor the rate is
\* never below epsilon_min after a decay application.
C9_ScheduleClosedFormUnitDecay ==
    config_data.Algorithm = "DQN" /\ eps_decays >= 1 =>
        /\ (~RatLess(epsilon_decay, <<0, 1>>)
              /\ ~RatLess(<<1, 1>>, epsilon_decay)) => ClosedForm
        /\ ~RatLess(exploration_rate, epsilon_min)

\* C9 witness: decay 1/2 and floor 1/4; the third application is clamped.
C9_Witness ==
    /\ config_data.Algorithm = "DQN"
    /\ epsilon_decay = <<1, 2>> /\ epsilon_min = <<1, 4>>
    /\ eps_decays = 3
    /\ exploration_rate = <<1, 4>>

RECURSIVE SumRewards(_, _)
\* The sum of the rewards env.step returned in steps lo..hi (1-based).
SumRewards(lo, hi) ==
    IF lo > hi THEN 0 ELSE env.returns[hi].reward + SumRewards(lo, hi - 1)

\* The environment has signalled done exactly every F steps, never truncated.
DoneEvery(F) ==
    \A i \in 1..Len(env.returns) :
        /\ env.returns[i].done = (i % F = 0)
        /\ ~env.returns[i].truncated

RewardSignals == SelectSeq(window, LAMBDA e : e.sig = "reward")

LastBoundary ==
    LET ends == { j \in 1..Len(env.returns) : EpisodeEnd(env.returns[j]) }
    IN IF ends = {} THEN 0 ELSE CHOOSE j \in ends : \A k \in ends : k <= j

\* C11: at every episode boundary the per-episode step counter and reward
\* are reset to 0, the episode counter grows by one and env.reset is called
\* once; on any other step none of these happens (the counters go on from
\* the last boundary).
C11_ResetAtEpisodeBoundary ==
    pc # "created" =>
        /\ episode_num = EpisodeEndsUpTo(total_step_counter)
        /\ Len(env.resets) = 1 + EpisodeEndsUpTo(total_step_counter)
        /\ episode_timesteps = total_step_counter - LastBoundary
        /\ episode_reward = SumRewards(LastBoundary + 1, total_step_counter)
        /\ state = env.fresh - 1
        /\ LastBoundary = total_step_counter =>
              /\ episode_timesteps = 0 /\ episode_reward = 0
              /\ state = env.resets[Len(env.resets)]

\* C11 witness: an episode ended on step 2 and step 3 did not end one.
C11_Witness ==
    /\ total_step_counter = 3
    /\ LastBoundary = 2
    /\ episode_num = 1
    /\ episode_timesteps = 1
    /\ episode_reward = Pow2(2)
    /\ Len(env.resets) = 2

\* The evaluation calls made by the step with 0-based index t.
EvalCallsOfStep(t) == { i \in 1..Len(eval_calls) : eval_calls[i].after_step = t + 1 }

\* C12: the Evaluation Runner is invoked on a step exactly when the 1-indexed
\* completed-step count is a positive multiple of evaluation_interval, once
\* per such step, with the evaluation environment and the configured episode
\* count; a completed run of N steps invokes it N \div evaluation_interval
\* times (after steps 5 and 10 in the end-to-end scenario).
C12_EvaluationTrigger ==
    pc # "created" =>
        /\ \A t \in 0..(total_step_counter - 1) :
              Cardinality(EvalCallsOfStep(t)) =
                  IF (t + 1) % config_data.evaluation_interval = 0 THEN 1 ELSE 0
        /\ \A i \in 1..Len(eval_calls) :
              /\ eval_calls[i].after_step \in 1..total_step_counter
              /\ eval_calls[i].env = "env_evaluation"
              /\ eval_calls[i].episodes = config_data.number_eval_episodes
              /\ i > 1 => eval_calls[i - 1].after_step < eval_calls[i].after_step
        /\ total_step_counter = N =>
              Len(eval_calls) = N \div config_data.evaluation_interval
        /\ (config_data.script = "e2e" /\ total_step_counter = N) =>
              /\ Len(eval_calls) = 2
              /\ eval_calls[1].after_step = 5
              /\ eval_calls[2].after_step = 10

\* C12 witness: the end-to-end run has completed with its two evaluations.
C12_Witness ==
    /\ config_data.script = "e2e"
    /\ total_step_counter = 10
    /\ training_completed
    /\ Len(eval_calls) = 2

\* C12 witness of the episode count: a run with two evaluation episodes and
\* interval 2 has evaluated once, after step 2 and not after step 3.
C12_WitnessEpisodes ==
    /\ config_data.number_eval_episodes = 2
    /\ config_data.evaluation_interval = 2
    /\ total_step_counter = 3
    /\ Len(eval_calls) = 1
    /\ eval_calls[1].episodes = 2

\* C13: the timestep handed to the Evaluation Runner equals the 1-indexed
\* completed-step count that satisfied the trigger (5 and 10 in the
\* end-to-end scenario), the numbering of the training-log record of that
\* step.
C13_EvalKeyedByCompletedStep ==
    /\ \A i \in 1..Len(eval_calls) :
          /\ eval_calls[i].timestep = eval_calls[i].after_step
          /\ \A j \in 1..Len(log_train) :
                log_train[j].total_steps = eval_calls[i].after_step =>
                    eval_calls[i].timestep = log_train[j].total_steps
    /\ (config_data.script = "e2e" /\ Len(eval_calls) = 2) =>
          eval_calls[1].timestep = 5 /\ eval_calls[2].timestep = 10

\* The instance is a DQN, and the last operation on it was train_policy.
DqnTrained == rl_agent.kind = "DQN" /\ agent_hist.op = "train_policy"

\* C14: the DQN target network's parameters change only on a train_policy
\* call that brings learn_counter to an exact multiple of target_update_freq,
\* and right after such a call they are an exact copy of the online
\* network's parameters.
C14_HardSyncCadence ==
    DqnTrained =>
        /\ "target_net" \in agent_hist.changed =>
              rl_agent.learn_counter % config_data.target_update_freq = 0
        /\ rl_agent.learn_counter % config_data.target_update_freq = 0 =>
              rl_agent.nets["target_net"] = rl_agent.nets["net"]

\* C14 witness: with target_update_freq 2 the second call has copied the
\* twice-updated online network into the target.
C14_Witness ==
    /\ DqnTrained
    /\ config_data.target_update_freq = 2
    /\ rl_agent.learn_counter = 2
    /\ agent_hist.calls = 2
    /\ "target_net" \in agent_hist.changed
    /\ rl_agent.nets["target_net"] = rl_agent.nets["net"]

\* The steps of the loop that called train_policy.
TrainingSteps == { t \in 0..(total_step_counter - 1) : UpdatesInStep(t) > 0 }

\* C15: DQN's learn_counter equals the number of train_policy calls
\* completed on the instance, whatever other operations (action selection,
\* save, load, environment steps) came between; driven by the loop with G
\* updates per step it is G times the number of training steps.
C15_LearnCounterCountsCalls ==
    rl_agent.kind = "DQN" =>
        IF pc = "no_thread"
        THEN rl_agent.learn_counter = agent_hist.calls
        ELSE /\ rl_agent.learn_counter = Len(train_calls)
             /\ rl_agent.learn_counter =
                    config_data.G * Cardinality(TrainingSteps)

\* C15 witness: a DQN that was trained twice and then saved, restored and
\* asked for an action still counts 2.
C15_Witness ==
    /\ rl_agent.kind = "DQN"
    /\ pc = "no_thread"
    /\ agent_hist.calls = 2
    /\ agent_hist.saved # <<>>
    /\ agent_hist.op \in {"load_models", "select_action_from_policy"}
    /\ rl_agent.learn_counter = 2

\* C15 witness in the loop: a training step with G = 2 gives 2.
C15_WitnessLoop ==
    /\ rl_agent.kind = "DQN"
    /\ pc = "loop"
    /\ config_data.G = 2
    /\ Cardinality(TrainingSteps) = 1
    /\ rl_agent.learn_counter = 2

\* The instance is a DDPG, and the last operation on it was train_policy.
DdpgTrained == rl_agent.kind = "DDPG" /\ agent_hist.op = "train_policy"

\* C16: after every DDPG train_policy call each parameter of the actor
\* target and of the critic target equals tau * source + (1 - tau) *
\* (previous target), the source being the just-updated online parameter;
\* with tau = 1 the targets equal the sources and with tau = 0 the targets
\* are unchanged.
C16_SoftSync ==
    [][ (rl_agent.kind = "DDPG" /\ agent_hist'.op = "train_policy"
           /\ agent_hist'.trained = agent_hist.trained + 1) =>
          \A target \in TargetNets("DDPG") :
             LET src == rl_agent'.nets[SourceOf(target)]
                 new == rl_agent'.nets[target]
                 old == rl_agent.nets[target]
                 tau == config_data.tau
             IN /\ \E g \in Grads :
                      src = GradientStep("DDPG", rl_agent.nets, g)[SourceOf(target)]
                /\ \A i \in DOMAIN new :
                      RatEq(new[i],
                            <<tau[1] * src[i][1] * old[i][2]
                                + (tau[2] - tau[1]) * old[i][1] * src[i][2],
                              tau[2] * src[i][2] * old[i][2]>>)
                /\ tau = <<1, 1>> => new = src
                /\ tau = <<0, 1>> => new = old ]_vars

\* C16 witness: with tau = 1/2 a call has moved both targets to a value
\* strictly between the previous target and the source.
C16_Witness ==
    /\ DdpgTrained
    /\ config_data.tau = <<1, 2>>
    /\ agent_hist.changed = NetNames("DDPG")
    /\ \A target \in TargetNets("DDPG") :
          rl_agent.nets[target] # rl_agent.nets[SourceOf(target)]

\* C16 witness of the ends: tau = 1 has made a changed target equal its
\* source.
C16_WitnessFull ==
    /\ DdpgTrained
    /\ config_data.tau = <<1, 1>>
    /\ "target_actor_net" \in agent_hist.changed
    /\ rl_agent.nets["target_actor_net"] = rl_agent.nets["actor_net"]

\* C16 witness of the ends: tau = 0 has left the targets behind the sources.
C16_WitnessNone ==
    /\ DdpgTrained
    /\ config_data.tau = <<0, 1>>
    /\ agent_hist.changed = Optimised("DDPG")

\* The instance is a SAC, and the last operation on it was train_policy.
SacTrained == rl_agent.kind = "SAC" /\ agent_hist.op = "train_policy"

RestoredAsSaved == rl_agent.nets = agent_hist.saved

\* The last operation was a load_models that returned normally, of files
\* written by a save_models of this variant.
LoadedAfterSave ==
    /\ agent_hist.op = "load_models"
    /\ ~agent_hist.raised
    /\ agent_hist.saved # <<>>

\* C18: target-network parameters are mutated only by the synchronisation
\* inside train_policy: select_action_from_policy, save_models and
\* load_models leave every target unchanged, and within train_policy the
\* optimiser steps change only online parameters.
C18_TargetsChangeOnlyBySync ==
    /\ agent_hist.op \in {"select_action_from_policy", "save_models",
                          "load_models"} =>
          agent_hist.changed \cap TargetNets(rl_agent.kind) = {}
    /\ agent_hist.op = "train_policy" =>
          /\ agent_hist.pre_changed \cap TargetNets(rl_agent.kind) = {}
          /\ agent_hist.pre_changed = Optimised(rl_agent.kind)

\* C18 witness: a load_models has overwritten an online network and no
\* target.
C18_Witness ==
    /\ agent_hist.op = "load_models"
    /\ ~agent_hist.raised
    /\ agent_hist.changed # {}
    /\ agent_hist.changed \cap TargetNets(rl_agent.kind) = {}

\* C18 witness of training: the optimiser steps and the synchronisation of
\* one call have changed online networks and targets.
C18_WitnessTrain ==
    /\ agent_hist.op = "train_policy"
    /\ agent_hist.pre_changed = Optimised(rl_agent.kind)
    /\ agent_hist.changed = NetNames(rl_agent.kind)

\* C19: save_models followed by load_models with the same name and path,
\* into the same or a freshly constructed instance, reproduces the Agent
\* State that was saved: every parameter set of the variant (networks,
\* target copies, SAC's log_alpha) equals its value at the save.
C19_SaveLoadRoundTrip == LoadedAfterSave => RestoredAsSaved

\* C20: load_models raises when any file it expects (net for DQN; actor and
\* critic for DDPG and SAC) does not exist, and never completes normally with
\* default parameters in place of the missing file.
C20_LoadFailsOnMissingFile ==
    agent_hist.op = "load_models" =>
        /\ (\E role \in RoleSet(rl_agent.kind) : files[role] = Missing) =>
              agent_hist.raised
        /\ ~agent_hist.raised =>
              \A role \in RoleSet(rl_agent.kind) :
                 /\ files[role] # Missing
                 /\ rl_agent.nets[RoleNet(role)] = files[role]

\* C20 witness: the actor file exists and the critic file does not;
\* load_models has raised after overwriting the actor.
C20_Witness ==
    /\ rl_agent.kind = "DDPG"
    /\ agent_hist.op = "load_models"
    /\ agent_hist.raised
    /\ files["actor"] # Missing
    /\ files["critic"] = Missing
    /\ rl_agent.nets["actor_net"] = files["actor"]

\* C23: a checkpoint is persisted on a step exactly when an episode ends on
\* that step and the 1-indexed completed-step count is a multiple of
\* log_interval; then exactly once, after the training-log record of the
\* episode is written and before the episode accumulator is reset.
C23_CheckpointOnLoggedEpisodeEnd ==
    pc # "created" =>
        /\ \A i \in 1..total_step_counter :
              Cardinality({ k \in DOMAIN checkpoints : checkpoints[k] = i }) =
                  IF EpisodeEnd(env.returns[i])
                       /\ i % config_data.log_interval = 0
                  THEN 1 ELSE 0
        /\ \A k \in DOMAIN checkpoints : checkpoints[k] \in 1..total_step_counter
        /\ Pos(step_ops, "save_checkpoint") # 0 =>
              /\ checkpoints # <<>>
              /\ checkpoints[Len(checkpoints)] = total_step_counter
              /\ \E j \in DOMAIN log_train :
                    log_train[j].total_steps = total_step_counter
              /\ Pos(step_ops, "log_training") + 1 = Pos(step_ops, "save_checkpoint")
              /\ Pos(step_ops, "save_checkpoint") + 1 = Pos(step_ops, "env_reset")
        /\ (checkpoints # <<>> /\ total_step_counter > 0
              /\ checkpoints[Len(checkpoints)] = total_step_counter) =>
              Pos(step_ops, "save_checkpoint") # 0

\* C23 witness: with log interval 2 an episode that ended on step 1 was not
\* checkpointed and one that ended on step 2 was.
C23_Witness ==
    /\ config_data.log_interval = 2
    /\ total_step_counter = 2
    /\ episode_num = 2
    /\ checkpoints = <<2>>
    /\ Len(log_train) = 2

\* The values of one signal, in the order they were emitted.
SignalValues(name) ==
    LET sel == SelectSeq(window, LAMBDA e : e.sig = name)
    IN [ i \in DOMAIN sel |-> sel[i].val ]

\* C25: the step index notified to the observer starts at 1 and grows by
\* exactly 1 with each executed step; each executed step emits one step and
\* one progress notification; the progress percentage is non-decreasing
\* within 0..100 and is 100 on the last step of a completed run.
C25_StepCounterMonotonic ==
    LET progress == SignalValues("progress")
    IN /\ SignalValues("step") = [ i \in 1..total_step_counter |-> i ]
       /\ Len(progress) = total_step_counter
       /\ \A i \in DOMAIN progress :
             /\ progress[i] \in 0..100
             /\ i > 1 => progress[i - 1] <= progress[i]
       /\ (pc # "no_thread" /\ total_step_counter = N /\ N > 0) =>
             progress[N] = 100
       /\ \A i \in DOMAIN window :
             window[i].sig = "step" =>
                 i > 1 /\ window[i - 1].sig = "progress"

\* C25 witness: a completed run of three steps, the last notified as step 3
\* with progress 100.
C25_Witness ==
    /\ pc = "done"
    /\ training_completed
    /\ total_step_counter = 3
    /\ SignalValues("step") = <<1, 2, 3>>
    /\ SignalValues("progress") = <<33, 66, 100>>

\* The action of the most recent step.
LastAction == memory[Len(memory)].action

\* C27: in the epsilon-greedy family a step with index t < steps_exploration
\* samples the action from the environment and leaves the exploration rate
\* unchanged; a step with t >= steps_exploration decays and clamps the rate
\* exactly once before the draw and consults the policy only when the draw
\* is not below the rate; after n steps the number of decay applications is
\* max(0, n - steps_exploration).
C27_EpsilonGreedySelection ==
    /\ [](config_data.Algorithm = "DQN" =>
             eps_decays = Max0(total_step_counter
                                 - config_data.steps_exploration))
    /\ [][ (config_data.Algorithm = "DQN"
              /\ total_step_counter' = total_step_counter + 1) =>
             IF total_step_counter < config_data.steps_exploration
             THEN /\ LastAction'.src = "sample_action"
                  /\ exploration_rate' = exploration_rate
                  /\ eps_decays' = eps_decays
             ELSE /\ exploration_rate' =
                        PyMax(epsilon_min,
                              RatMul(exploration_rate, epsilon_decay))
                  /\ eps_decays' = eps_decays + 1
                  /\ LastAction'.src = "select_action_from_policy" =>
                        RatLess(exploration_rate', <<1, 1>>)
                  /\ LastAction'.src = "sample_action" =>
                        RatLess(<<0, 1>>, exploration_rate')
                  /\ LastAction'.src \in {"select_action_from_policy",
                                          "sample_action"} ]_vars

\* C27 witness: one exploration step, then a decayed step that drew below
\* the rate and a decayed step that consulted the policy.
C27_Witness ==
    /\ config_data.Algorithm = "DQN"
    /\ config_data.steps_exploration = 1
    /\ total_step_counter = 3
    /\ eps_decays = 2
    /\ memory[1].action.src = "sample_action"
    /\ memory[2].action.src = "sample_action"
    /\ memory[3].action.src = "select_action_from_policy"
    /\ exploration_rate = <<1, 4>>

\* No operation of the loop has happened: no reset or step of either
\* environment, no memory write, no training update, no record and no
\* notification of the observer.
NothingRun ==
    /\ env.resets = <<>> /\ env.returns = <<>>
    /\ env_evaluation.resets = <<>> /\ env_evaluation.returns = <<>>
    /\ memory = <<>> /\ train_calls = <<>> /\ eval_calls = <<>>
    /\ log_train = <<>> /\ checkpoints = <<>>
    /\ window = <<>> /\ completed_signal = <<>> /\ final_ops = <<>>
    /\ total_step_counter = 0

\* C21: an unknown platform or algorithm identifier is fatal and raised
\* before the loop starts: the run never reaches the loop, the exception is
\* raised before any agent, memory or logger is constructed, and before any
\* env.reset or env.step, memory write, training update or notification of
\* the observer, the completion flag included.
C21_UnknownIdentifierFatal ==
    (\/ config_data.Algorithm \notin KnownAlgorithms
     \/ config_data.selected_platform \notin Platforms) =>
        /\ pc \in {"created", "raised"}
        /\ NothingRun
        /\ rl_agent = NoAgent
        /\ \A stage \in {"rl_agent", "memory", "logger"} :
              Pos(setup_ops, stage) = 0
        /\ pc = "raised" =>
              /\ error.type =
                    IF config_data.Algorithm \notin KnownAlgorithms
                    THEN "ModuleNotFoundError" ELSE "ValueError"
              /\ setup_ops =
                    IF config_data.Algorithm \notin KnownAlgorithms
                    THEN <<"set_seed">>
                    ELSE <<"set_seed", "import_algorithm">>

\* C21 witness: the run of a known algorithm on an unknown platform has
\* ended with ValueError after set_seed and the import.
C21_Witness ==
    /\ config_data.selected_platform = "Unity"
    /\ config_data.Algorithm = "DQN"
    /\ pc = "raised"
    /\ error = [type |-> "ValueError", stage |-> "create_env"]
    /\ setup_ops = <<"set_seed", "import_algorithm">>

\* C21 witness: the run of an unknown algorithm has ended with
\* ModuleNotFoundError after set_seed.
C21_WitnessAlgorithm ==
    /\ config_data.Algorithm = "Unknown"
    /\ config_data.selected_platform = "Gymnasium"
    /\ pc = "raised"
    /\ error = [type |-> "ModuleNotFoundError", stage |-> "import_algorithm"]

\* A hyperparameter the run converts is missing, or one of its divisors is 0.
InvalidHyperparameter(c) ==
    \/ c.missing \cap (AgentReads(c.Algorithm) \cup LoopReads(c.Algorithm)) # {}
    \/ c.evaluation_interval = 0
    \/ c.log_interval = 0
    \/ c.Algorithm = "PPO" /\ c.max_steps_per_batch = 0
    \/ c.Algorithm = "DQN" /\ c.target_update_freq = 0

\* C22: a missing or invalid hyperparameter is fatal and raised before the
\* loop starts: the error is raised before the first environment step is
\* taken, never after transitions have been stored or updates run.
C22_InvalidHyperparameterRaisedBeforeLoop ==
    (InvalidHyperparameter(config_data) /\ pc = "raised") =>
        /\ env.returns = <<>>
        /\ memory = <<>>
        /\ train_calls = <<>>

\* The number of times the statement was executed by the set-up.
TimesDone(stage) ==
    Cardinality({ i \in DOMAIN setup_ops : setup_ops[i] = stage })

\* C26: the training and the evaluation environment are two separate
\* instances, each created exactly once before the loop, the training one
\* seeded with Seed and the evaluation one with Seed + 1, on every supported
\* platform.
C26_SeparateSeededEnvironments ==
    /\ pc \notin {"created", "raised"} =>
          /\ config_data.selected_platform \in Platforms
          /\ setup_ops = SetupStages
    /\ (pc # "created" /\ config_data.selected_platform \in Platforms
          /\ config_data.Algorithm \in KnownAlgorithms) =>
          /\ TimesDone("create_env") = 1
          /\ TimesDone("create_env_evaluation") = 1
          /\ env.instance # env_evaluation.instance
          /\ env.seed = config_data.Seed
          /\ env_evaluation.seed = config_data.Seed + 1
          /\ env.cls = env_evaluation.cls
          /\ env.cls = IF config_data.selected_platform = "DMCS"
                       THEN "DMControlEnvironment" ELSE "GymEnvironment"
    /\ pc = "created" => setup_ops = <<>> /\ env = NoEnv /\ env_evaluation = NoEnv

\* C26 witness: a run on DMCS with Seed 1 has stepped the training
\* environment, seeded 1, and evaluated on the other, seeded 2.
C26_Witness ==
    /\ config_data.selected_platform = "DMCS"
    /\ config_data.Seed = 1
    /\ pc = "loop"
    /\ total_step_counter = 2
    /\ env.seed = 1 /\ env.instance = 1 /\ Len(env.returns) = 2
    /\ env_evaluation.seed = 2 /\ env_evaluation.instance = 2
    /\ Len(env_evaluation.returns) = 2

\* C26 witness: the same on MuJoCo with Seed 0.
C26_WitnessMuJoCo ==
    /\ config_data.selected_platform = "MuJoCo"
    /\ config_data.Seed = 0
    /\ pc = "done"
    /\ env.seed = 0 /\ env_evaluation.seed = 1
    /\ env.cls = "GymEnvironment"

\* The place of an operation in the order of one iteration.
Rank(op) ==
    CASE op = "poll" -> 1
      [] op = "select_action" -> 2
      [] op = "env_step" -> 3
      [] op = "add_experience" -> 4
      [] op = "train_policy" -> 5
      [] op \in {"log_training", "save_checkpoint", "env_reset"} -> 6
      [] op = "evaluate" -> 7
      [] op = "notify" -> 8

\* The train_policy calls made in the steps up to the one with index t.
UpdatesUpTo(t) ==
    Cardinality({ i \in 1..Len(train_calls) : train_calls[i].step <= t })

\* C28: within every executed step the operations occur in this order:
\* cancellation poll, action selection, env.step, memory add, the step's
\* training updates, episode bookkeeping, evaluation, progress notification;
\* no training update follows the evaluation within the step, and an
\* evaluation is invoked when all of its step's updates have been made.
C28_OrderWithinStep ==
    /\ total_step_counter > 0 =>
          /\ SubSeq(step_ops, 1, 4) =
                <<"poll", "select_action", "env_step", "add_experience">>
          /\ step_ops[Len(step_ops)] = "notify"
          /\ \A i \in 1..(Len(step_ops) - 1) :
                \/ Rank(step_ops[i]) < Rank(step_ops[i + 1])
                \/ /\ step_ops[i] = "train_policy"
                   /\ step_ops[i + 1] = "train_policy"
                \/ /\ step_ops[i] = "log_training"
                   /\ step_ops[i + 1] \in {"save_checkpoint", "env_reset"}
                \/ /\ step_ops[i] = "save_checkpoint"
                   /\ step_ops[i + 1] = "env_reset"
          /\ Cardinality({ i \in DOMAIN step_ops :
                              step_ops[i] = "train_policy" })
                = UpdatesInStep(total_step_counter - 1)
          /\ (Pos(step_ops, "evaluate") # 0) =
                (eval_calls # <<>>
                   /\ eval_calls[Len(eval_calls)].after_step
                        = total_step_counter)
          /\ Pos(step_ops, "evaluate") # 0 =>
                eval_calls[Len(eval_calls)].updates = Len(train_calls)
    /\ \A i \in DOMAIN eval_calls :
          eval_calls[i].updates = UpdatesUpTo(eval_calls[i].timestep)

\* C28 witness: a step with two training updates, an episode end with a
\* checkpoint, and an evaluation invoked after both updates.
C28_Witness ==
    /\ step_ops = <<"poll", "select_action", "env_step", "add_experience",
                    "train_policy", "train_policy", "log_training",
                    "save_checkpoint", "env_reset", "evaluate", "notify">>
    /\ eval_calls[Len(eval_calls)].updates = Len(train_calls)
    /\ Len(train_calls) >= 2

\* The number of episodes the evaluations made so far were asked for.
RECURSIVE EpisodesAsked(_)
EpisodesAsked(k) ==
    IF k = 0 THEN 0 ELSE eval_calls[k].episodes + EpisodesAsked(k - 1)

\* C29: an evaluation operates only on the evaluation environment: it is
\* never handed the training environment and never steps it, and the step
\* in which it runs leaves the loop's state, the episode accumulator, the
\* step counter, the exploration rate and the memory as the step's own
\* statements set them.
C29_EvaluationOnSeparateEnvironment ==
    /\ [](/\ \A i \in DOMAIN eval_calls : eval_calls[i].env = "env_evaluation"
          /\ Len(env.returns) = total_step_counter
          /\ pc # "created" => Len(env.resets) = episode_num + 1
          /\ Len(env_evaluation.returns) = EpisodesAsked(Len(eval_calls))
          /\ Len(env_evaluation.resets) = EpisodesAsked(Len(eval_calls))
          /\ Len(memory) = total_step_counter)
    /\ [][ eval_calls' # eval_calls =>
             LET ret == env'.returns[Len(env'.returns)]
             IN /\ Len(env'.returns) = Len(env.returns) + 1
                /\ SubSeq(env'.returns, 1, Len(env.returns)) = env.returns
                /\ memory' = Append(memory,
                                    Transition(state, ret.action, ret,
                                               LogProb(config_data.Algorithm,
                                                       state)))
                /\ total_step_counter' = total_step_counter + 1
                /\ exploration_rate' =
                      IF Decays(config_data.Algorithm, total_step_counter,
                                config_data.steps_exploration)
                      THEN DecayRate(exploration_rate, epsilon_decay,
                                     epsilon_min)
                      ELSE exploration_rate
                /\ IF EpisodeEnd(ret)
                   THEN /\ env'.resets = Append(env.resets, state')
                        /\ episode_reward' = 0
                        /\ episode_timesteps' = 0
                        /\ episode_num' = episode_num + 1
                   ELSE /\ env'.resets = env.resets
                        /\ state' = ret.next_state
                        /\ episode_reward' = episode_reward + ret.reward
                        /\ episode_timesteps' = episode_timesteps + 1
                        /\ episode_num' = episode_num ]_vars

\* C29 witness: an evaluation of two episodes has run in a step that did not
\* end the episode: the evaluation environment was reset and stepped twice,
\* the training environment stepped once.
C29_Witness ==
    /\ Len(eval_calls) = 1
    /\ eval_calls[1].episodes = 2
    /\ Len(env_evaluation.returns) = 2
    /\ Len(env_evaluation.resets) = 2
    /\ Len(env.returns) = 1
    /\ Len(env.resets) = 1
    /\ episode_timesteps = 1
    /\ Len(memory) = 1
    /\ state = env.returns[1].next_state

\* total_episode_time when the i-th episode ended.
RECURSIVE TotalEpisodeTime(_)
TotalEpisodeTime(i) ==
    IF i = 0 THEN 0 ELSE log_train[i].episode_time + TotalEpisodeTime(i - 1)

\* The average duration of the first i episodes.
AverageEpisodeTime(i) == <<TotalEpisodeTime(i), i>>

\* The remaining step budget when the i-th episode ended.
RemainingBudget(i) == config_data.steps_training - log_train[i].total_steps

\* The statement of C30 as it was made: the estimate is the average episode
\* duration multiplied by the quotient of the remaining step budget and the
\* length of the episode just ended; it is never negative and is 0 when the
\* episode ends on the last step of the budget.
C30_EstimateExactQuotient ==
    /\ Len(estimates) = Len(log_train)
    /\ \A i \in DOMAIN estimates :
          /\ RatEq(estimates[i].estimated_time_remaining,
                   RatMul(AverageEpisodeTime(i),
                          <<RemainingBudget(i), log_train[i].steps>>))
          /\ ~RatLess(estimates[i].estimated_time_remaining, <<0, 1>>)
          /\ RemainingBudget(i) = 0 =>
                RatEq(estimates[i].estimated_time_remaining, <<0, 1>>)

\* C30 as amended: the estimate is the average episode duration multiplied
\* by the whole number of episodes of the length of the one just ended that
\* fit in the remaining step budget (the floor of the quotient); what is
\* emitted is the larger of 0 and the estimate, formatted, so never
\* negative; the estimate is 0 when the episode ends on the last step.
C30_EstimateFloorQuotient ==
    /\ Len(estimates) = Len(log_train)
    /\ \A i \in DOMAIN estimates :
          /\ RatEq(estimates[i].estimated_time_remaining,
                   RatMul(AverageEpisodeTime(i),
                          <<RemainingBudget(i) \div log_train[i].steps, 1>>))
          /\ estimates[i].emitted =
                IF RatLess(estimates[i].estimated_time_remaining, <<0, 1>>)
                THEN <<0, 0, 0>>
                ELSE FormatHMS(estimates[i].estimated_time_remaining)
          /\ \A k \in 1..3 : estimates[i].emitted[k] >= 0
          /\ RemainingBudget(i) = 0 =>
                RatEq(estimates[i].estimated_time_remaining, <<0, 1>>)
    /\ SignalValues("time_remaining")
          = [ i \in DOMAIN estimates |-> estimates[i].emitted ]

\* C30 witness: with a budget of 3 an episode of 2 steps that took 4 units
\* has ended at step 2: the quotient 1/2 counts as no episode and the
\* estimate is 0, not 2.
C30_Witness ==
    /\ config_data.steps_training = 3
    /\ Len(estimates) = 1
    /\ log_train[1].total_steps = 2
    /\ log_train[1].steps = 2
    /\ log_train[1].episode_time = 4
    /\ estimates[1].average_episode_time = <<4, 1>>
    /\ estimates[1].estimated_time_remaining = <<0, 1>>

\* C30 witness: after a first episode of 2 units, a second episode of one
\* step and 0 units has ended at step 2 of 3: the average is 1 and the
\* estimate 1 * (1 \div 1) = 1, emitted as 00:00:01.
C30_WitnessAverage ==
    /\ config_data.steps_training = 3
    /\ Len(estimates) = 2
    /\ log_train[1].episode_time = 2
    /\ log_train[2].episode_time = 0
    /\ estimates[2].average_episode_time = <<1, 1>>
    /\ estimates[2].estimated_time_remaining = <<1, 1>>
    /\ estimates[2].emitted = <<0, 0, 1>>

\* C30 witness: the clock was set back during the only episode: the
\* estimate is negative and 00:00:00 is emitted.
C30_WitnessClockSetBack ==
    /\ Len(estimates) = 1
    /\ log_train[1].episode_time = -1
    /\ RatLess(estimates[1].estimated_time_remaining, <<0, 1>>)
    /\ estimates[1].emitted = <<0, 0, 0>>

\* The index of the last record of the log written at the timestep.
LastAt(df, key) ==
    CHOOSE i \in DOMAIN df :
        /\ df[i].Total_Timesteps = key
        /\ \A j \in DOMAIN df : df[j].Total_Timesteps = key => j <= i

RECURSIVE LoggedSteps(_)
LoggedSteps(k) == IF k = 0 THEN 0 ELSE LoggedSteps(k - 1) + log_train[k].steps

\* C31: at the end of every executed step the steps of the logged episodes
\* and the current per-episode step counter add up to the number of steps
\* executed; the total steps written in a training-log record are the steps
\* completed at that episode boundary; the i-th completed episode is logged
\* and reported with index i.
C31_StepConservation ==
    /\ pc # "raised" =>
          LoggedSteps(Len(log_train)) + episode_timesteps = total_step_counter
    /\ \A i \in DOMAIN log_train :
          /\ log_train[i].total_steps = LoggedSteps(i)
          /\ log_train[i].total_steps <= total_step_counter
          /\ log_train[i].episode = i
    /\ SignalValues("episode") = [ i \in DOMAIN log_train |-> i ]

\* C31 witness: episodes of 2 steps and 1 step are logged and a fourth step
\* has been executed in the third episode, or, with a budget of 3, episodes
\* of 1 step each and a third step.
C31_Witness ==
    /\ pc = "loop"
    /\ Len(log_train) = 2
    /\ episode_timesteps = 1
    /\ \/ /\ total_step_counter = 4
          /\ log_train[1].steps = 2 /\ log_train[2].total_steps = 3
       \/ /\ total_step_counter = 3 /\ config_data.steps_training = 3
          /\ log_train[1].steps = 1 /\ log_train[2].total_steps = 2
    /\ SignalValues("episode") = <<1, 2>>

\* C34: whenever the episode-completion branch runs, the per-episode step
\* counter and the episode divisor episode_num + 1 are at least 1, whatever
\* the done and truncated signals were: no division of the branch raises.
C34_BookkeepingDivisorsPositive ==
    /\ error.stage # "time_remaining"
    /\ episode_num >= 0 /\ episode_timesteps >= 0
    /\ Len(estimates) = Len(log_train)
    /\ \A i \in DOMAIN estimates :
          /\ estimates[i].episode_timesteps >= 1
          /\ estimates[i].episode_divisor >= 1
          /\ estimates[i].episode_divisor = i

\* C34 witness: an episode ended on the first step after a reset, with
\* done or with truncated alone.
C34_Witness ==
    /\ Len(estimates) = 2
    /\ estimates[2].episode_timesteps = 1
    /\ estimates[2].episode_divisor = 2
    /\ estimates[1].step + 1 = estimates[2].step
    /\ LET ret == env.returns[estimates[2].step]
       IN ret.done # ret.truncated

\* C32: for DDPG and SAC a load_models call that raises leaves every
\* parameter set of the agent as it was before the call: no network is
\* overwritten by a restore that fails.
C32_AtomicRestore ==
    /\ rl_agent.kind \in {"DDPG", "SAC"}
    /\ agent_hist.op = "load_models"
    /\ agent_hist.raised
    => agent_hist.changed = {}

\* The hyperparameters due to a row marked custom: the ones saved for it
\* last, none if nothing was saved for it.
SavedFor(row) ==
    LET saved == rows_hist.saved[row.widget]
    IN IF saved = NotSaved THEN EmptyParams ELSE saved[1]

\* C33: confirm_selection pairs every row marked custom with the
\* hyperparameters most recently saved for that same row: never with those
\* saved for a different or since-removed row, nor with an empty set when
\* the row has saved ones.
C33_CustomParamsStayWithRow ==
    pc = "select_platform" =>
        /\ Len(user_selections) = Len(selection_rows)
        /\ \A i \in DOMAIN selection_rows :
              ~selection_rows[i].use_default =>
                  user_selections[i].Hyperparameters =
                      SavedFor(selection_rows[i])

====
